---- MODULE Spec2Model ----
(***************************************************************************)
(* A model of the tree generator "tradet": the assembly worker             *)
(* (src/unnamed/part_000, the later version of engine/manifold.worker.ts), *)
(* the host component that drives it (components/Tree.tsx, second          *)
(* version), the binary STL serializer and the envelope-constrained        *)
(* generator (engine/botanisten/realisticTree.ts, second version).         *)
(***************************************************************************)
EXTENDS Integers, Sequences, FiniteSets, TLC

VARIABLES
    manifold,      \* worker: the kernel handle is set (part_000:3, truthy or not)
    initPending,   \* worker: INIT requests suspended at `await initManifold()`
    currentSolid,  \* worker: the solid kept for export, 0 for null (part_000:6)
    kernel,        \* the external kernel's heap: next handle, released handles, meshes
    inbox,         \* messages posted to the worker, not yet handled (FIFO)
    outbox,        \* messages posted by the worker, not yet received (FIFO)
    sent,          \* number of requests posted so far (also the last request id)
    last,          \* history: what the last handler execution saw and answered
    okGen,         \* history: some GENERATE_TREE has been answered with TREE_READY
    initFailed,    \* history: the latest finished INIT failed and none succeeded since
    initOk,        \* history: some INIT has succeeded
    exported,      \* history: per scale, the buffer exported from the stored solid
    stlIn,         \* meshToSTL called on its own: the mesh passed
    stlOut,        \* ... and what the call returned
    isGenerating,  \* Tree: useState(false)
    workerReady,   \* store: workerReady
    triggerGeneration, \* store: triggerGeneration
    timer,         \* Tree: the 300 ms timer of the generation effect is pending
    geometry,      \* Tree: the request whose mesh is shown (0: none)
    unanswered,    \* history: GENERATE_TREE requests posted by Tree, no reply received
    generator,     \* a RealisticTreeGenerator object: seed, preset, segments, ...
    returned,      \* history: the last call of generateTree and the array it returned
    firstOf,       \* history: per parameter object, what the first call with it returned
    log,           \* history: the parameters of the calls made on this object, in order
    made,          \* history: the number of calls of generateTree made so far
    unionIn,       \* binaryUnion called on its own: the solids passed, their point sets
    unionOut,      \* ... and what the call returned, with the kernel's log
    stringIn,      \* Botanist.generateString called: axiom, depth, branchingFactor
    stringOut,     \* ... and the string it returned
    foliage,       \* a FoliageGenerator object: its seed
    generated,     \* history: the calls of generate made on it and their clusters
    turtle,        \* Botanist.interpret: the locals of the call under way
    connected      \* a ConnectedTreeGenerator object and the call under way on it

svars == <<stlIn, stlOut>>

hvars == <<isGenerating, workerReady, triggerGeneration, timer, geometry, unanswered>>

gvars == <<generator, returned, firstOf, log, made>>

uvars == <<unionIn, unionOut>>

lvars == <<stringIn, stringOut>>

fvars == <<foliage, generated>>

tvars == <<turtle>>

cvars == <<connected>>

wvars == <<manifold, initPending, currentSolid, kernel, inbox, outbox, sent,
           last, okGen, initFailed, initOk, exported>>

----------------------------------------------------------------------------
(* Bounds of the model.                                                    *)

MaxRequests == 4
MaxTrigger == 2   \* generate clicks of the host
MaxTris == 3      \* triangles of a mesh passed to meshToSTL on its own
MaxCalls == 3     \* calls of generateTree
MaxString == 5    \* characters of a string passed to interpret
MaxTurns == 21    \* turns of the do-while of generateIrregular followed

----------------------------------------------------------------------------
(* Numbers.  A coordinate is a dyadic rational k / Den held as the integer *)
(* k; the scales of the model divide Den, so products are exact.           *)

Den == 2 * 2

\* F(x), with x evaluated once.
Call(F(_), x) == CHOOSE r \in {F(a) : a \in {x}} : TRUE

Abs(a) == IF a < 0 THEN -a ELSE a

Sgn(a) == IF a < 0 THEN -1 ELSE IF a > 0 THEN 1 ELSE 0

\* Truncating division (JavaScript numbers, rounded toward zero).
TDiv(a, b) == Sgn(a) * Sgn(b) * (Abs(a) \div Abs(b))

RECURSIVE IsqrtIn(_, _, _)
IsqrtIn(n, lo, hi) ==
    IF lo >= hi THEN lo
    ELSE LET mid == (lo + hi + 1) \div 2
         IN IF mid * mid <= n THEN IsqrtIn(n, mid, hi) ELSE IsqrtIn(n, lo, mid - 1)

\* Math.sqrt on the integers, rounded down.
Isqrt(n) == IsqrtIn(n, 0, 46340)

RECURSIVE Log2Floor(_)
Log2Floor(a) == IF a < 2 THEN 0 ELSE 1 + Log2Floor(a \div 2)

----------------------------------------------------------------------------
(* Requests.  A branch is given by its end points in units of 0.00001, a   *)
(* cluster by its kind and its radius in units of 0.0001.                  *)

Branch(s, e) == [start |-> s, end |-> e, r1 |-> 3, r2 |-> 2]

GoodBranch == Branch(<<0, 0, 0>>, <<0, 1000, 0>>)
SlantBranch == Branch(<<0, 1000, 0>>, <<6, 1006, 6>>)
ShortBranch == Branch(<<5, 5, 5>>, <<10, 10, 10>>)
ZeroBranch == Branch(<<7, 7, 7>>, <<7, 7, 7>>)

Cluster(t, r) == [position |-> <<0, 0, 0>>, radius |-> r, type |-> t]

PayloadPool ==
    { [branches |-> <<>>, foliage |-> <<>>],
      [branches |-> <<ZeroBranch, ShortBranch>>, foliage |-> <<Cluster("sphere", 9)>>],
      [branches |-> <<GoodBranch>>, foliage |-> <<>>],
      [branches |-> <<ShortBranch, SlantBranch>>, foliage |-> <<Cluster("cone", 9)>>],
      [branches |-> <<GoodBranch, ZeroBranch, SlantBranch>>,
       foliage |-> <<Cluster("sphere", 10), Cluster("leaf", 5)>>] }

NoPayload == [absent |-> TRUE]

ScalePool == {1, 2, 4}

ExportPayloads == {NoPayload} \cup {[modelScale |-> s] : s \in ScalePool}

Request(t, i, p) == [type |-> t, id |-> i, payload |-> p]

Response(t, re, p) == [type |-> t, re |-> re, payload |-> p]

----------------------------------------------------------------------------
(* Meshes the kernel can hand out: numProp, the interleaved vertex         *)
(* properties (numerators over Den) and the triangle indices.              *)

Mesh(np, vp, tv) == [numProp |-> np, vertProperties |-> vp, triVerts |-> tv]

MeshPool ==
    << Mesh(3, <<>>, <<>>),
       Mesh(3, <<0, 0, 0,  4, 0, 0,  0, 8, 0>>, <<0, 1, 2>>),
       Mesh(4, <<0, 0, 0, 12,  0, 4, 0, 12,  0, 0, -8, 12,  4, 4, 4, 12>>,
               <<0, 1, 2,  3, 3, 1>>) >>

----------------------------------------------------------------------------
(* The external kernel (manifold-3d).  A solid is a handle 1, 2, ...; the  *)
(* kernel record holds the next free handle, the released handles and the  *)
(* mesh of the solid kept for export.  While one request is handled the    *)
(* record also carries the number of pairwise unions made and a log.       *)

NewKernel == [next |-> 1, released |-> {}, mesh |-> <<>>]

Run(k) == [next |-> k.next, released |-> k.released, mesh |-> k.mesh,
           calls |-> 0, log |-> <<>>]

Settle(k, keep) ==
    [next |-> k.next, released |-> k.released,
     mesh |-> [i \in (DOMAIN k.mesh) \cap {keep} |-> k.mesh[i]]]

\* A primitive constructor: a fresh handle.
Alloc(k) == [k EXCEPT !.next = k.next + 1]

\* solid.delete(): the handle is released; releasing it twice is an error.
Delete(k, x) ==
    [k |-> [k EXCEPT !.released = k.released \cup {x},
                     !.log = Append(k.log, <<"delete", x>>)],
     threw |-> x \in k.released]

\* Manifold.union(l, r): a fresh handle, unless the kernel throws (the
\* failAt-th union of the request is the one that fails, 0 for none).
Union(k, l, r, failAt) ==
    IF k.calls + 1 = failAt \/ l \in k.released \/ r \in k.released
    THEN [k |-> [k EXCEPT !.calls = k.calls + 1], res |-> 0, threw |-> TRUE]
    ELSE [k |-> [k EXCEPT !.next = k.next + 1, !.calls = k.calls + 1,
                          !.log = Append(k.log, <<"union", l, r, k.next>>)],
          res |-> k.next, threw |-> FALSE]

\* The tail of binaryUnion: `result` is in hand, the two halves are released.
Returned(res, dr) ==
    [k |-> dr.k, res |-> IF dr.threw THEN 0 ELSE res, threw |-> dr.threw]

CleanupRight(r, res, dl) ==
    IF dl.threw THEN [k |-> dl.k, res |-> 0, threw |-> TRUE]
    ELSE Returned(res, Delete(dl.k, r))

Cleanup_LeftKept(l, r, result) ==
    IF result.threw THEN result
    ELSE Returned(result.res, Delete(result.k, r))

Cleanup(l, r, result) ==
    IF result.threw THEN result
    ELSE CleanupRight(r, result.res, Delete(result.k, l))

UnionBoth(left, right, failAt) ==
    IF right.threw THEN right
    ELSE IF left.res = 0 THEN right
    ELSE IF right.res = 0 THEN [right EXCEPT !.res = left.res]
    ELSE Cleanup(left.res, right.res, Union(right.k, left.res, right.res, failAt))

RECURSIVE binaryUnion(_, _, _)
UnionRight(left, rightArr, failAt) ==
    IF left.threw THEN left
    ELSE UnionBoth(left, binaryUnion(left.k, rightArr, failAt), failAt)

binaryUnion_SplitHigh(k, solids, failAt) ==
    IF Len(solids) = 0 THEN [k |-> k, res |-> 0, threw |-> FALSE]
    ELSE IF Len(solids) = 1 THEN [k |-> k, res |-> solids[1], threw |-> FALSE]
    ELSE UnionRight(binaryUnion(k, SubSeq(solids, 1, (Len(solids) + 1) \div 2), failAt),
                    SubSeq(solids, (Len(solids) + 1) \div 2 + 1, Len(solids)),
                    failAt)

binaryUnion_LastDropped(k, solids, failAt) ==
    IF Len(solids) = 0 THEN [k |-> k, res |-> 0, threw |-> FALSE]
    ELSE IF Len(solids) = 1 THEN [k |-> k, res |-> solids[1], threw |-> FALSE]
    ELSE UnionRight(binaryUnion(k, SubSeq(solids, 1, Len(solids) \div 2), failAt),
                    SubSeq(solids, Len(solids) \div 2 + 1, Len(solids) - 1),
                    failAt)

\* binaryUnion: split at floor(length / 2), union each half, union the two
\* results, release the two halves.  An exception of the kernel unwinds it.
binaryUnion(k, solids, failAt) ==
    IF Len(solids) = 0 THEN [k |-> k, res |-> 0, threw |-> FALSE]
    ELSE IF Len(solids) = 1 THEN [k |-> k, res |-> solids[1], threw |-> FALSE]
    ELSE UnionRight(binaryUnion(k, SubSeq(solids, 1, Len(solids) \div 2), failAt),
                    SubSeq(solids, Len(solids) \div 2 + 1, Len(solids)),
                    failAt)

\* createBranch: null (0) for a segment shorter than 0.0001, else a cylinder.
EpsLength == 10

Height(dx, dy, dz) == Isqrt(dx * dx + dy * dy + dz * dz)

\* (mutant) a cylinder is made whatever the length.
createBranch_AnyLength(k, b) == [k |-> Alloc(k), res |-> k.next]

createBranch(k, b) ==
    IF Height(b.end[1] - b.start[1], b.end[2] - b.start[2], b.end[3] - b.start[3])
         < EpsLength
    THEN [k |-> k, res |-> 0]
    ELSE [k |-> Alloc(k), res |-> k.next]

\* createSphere: null (0) for a radius below 0.001.
EpsRadius == 10

createSphere(k, radius) ==
    IF radius < EpsRadius THEN [k |-> k, res |-> 0]
    ELSE [k |-> Alloc(k), res |-> k.next]

createFoliageCluster(k, cluster) ==
    CASE cluster.type = "sphere" -> createSphere(k, cluster.radius)
      [] cluster.type = "cone" -> [k |-> Alloc(k), res |-> k.next]
      [] cluster.type = "cylinder" -> [k |-> Alloc(k), res |-> k.next]
      [] OTHER -> createSphere(k, cluster.radius)

\* The two loops of the GENERATE_TREE handler that fill `solids`.
Pushed(c, solids) ==
    [k |-> c.k, solids |-> IF c.res # 0 THEN Append(solids, c.res) ELSE solids]

RECURSIVE RealizeBranches(_, _)
RealizeBranches(r, bs) ==
    IF bs = <<>> THEN r
    ELSE RealizeBranches(Pushed(createBranch(r.k, Head(bs)), r.solids), Tail(bs))

RECURSIVE RealizeFoliage(_, _)
RealizeFoliage(r, cs) ==
    IF cs = <<>> THEN r
    ELSE RealizeFoliage(Pushed(createFoliageCluster(r.k, Head(cs)), r.solids), Tail(cs))

Realize(k, payload) ==
    RealizeFoliage(RealizeBranches([k |-> k, solids |-> <<>>], payload.branches),
                   payload.foliage)

\* solid.getMesh(): the mesh the kernel evaluates for the solid, the same
\* at every call; `pick` is the kernel's choice at the first call.
GetMesh(k, x, pick) ==
    IF x \in DOMAIN k.mesh THEN k
    ELSE [k EXCEPT !.mesh = [i \in (DOMAIN k.mesh) \cup {x} |->
                                IF i = x THEN pick ELSE k.mesh[i]]]

----------------------------------------------------------------------------
(* Binary STL (meshToSTL).  The buffer is a sequence of bytes; offset o of *)
(* the code is position o + 1 of the sequence.                             *)

headerSize == 80
triangleSize == 50
countSize == 4

header ==
    << 66, 105, 110, 97, 114, 121, 32, 83, 84, 76, 32, 101, 120, 112, 111, 114,
       116, 101, 100, 32, 102, 114, 111, 109, 32, 84, 114, 97, 100, 101, 116, 32,
       84, 114, 101, 101, 32, 71, 101, 110, 101, 114, 97, 116, 111, 114 >>

\* DataView.setUint32(.., n, true) and setUint16(.., n, true): little-endian.
U32(n) == << n % 256, (n \div 256) % 256, (n \div 65536) % 256, n \div 16777216 >>

U16(n) == << n % 256, n \div 256 >>

\* DataView.setFloat32(.., k / Den, true): the IEEE-754 single of k / Den,
\* least significant byte first (exact for the numerators of the model).
F32(k) ==
    IF k = 0 THEN <<0, 0, 0, 0>>
    ELSE LET a == Abs(k)
             e == Log2Floor(a)
             E == e - Log2Floor(Den) + 127
             frac == (a - 2 ^ e) * 2 ^ (23 - e)
         IN << frac % 256, (frac \div 256) % 256,
               (E % 2) * 128 + frac \div 65536,
               (IF k < 0 THEN 128 ELSE 0) + E \div 2 >>

\* One DataView write of `bytes` at the write offset.  The code writes the
\* buffer front to back, so the bytes written so far are its first `offset`
\* bytes; a write past the end of the buffer throws (RangeError).
Put(w, bytes) ==
    IF w.threw \/ Len(w.written) + Len(bytes) > w.size
    THEN [w EXCEPT !.threw = TRUE]
    ELSE [w EXCEPT !.written = w.written \o bytes]

\* The first n of the writes `vals`, in order.
RECURSIVE PutFirst(_, _, _)
PutFirst(w, vals, n) ==
    IF n = 0 THEN w
    ELSE Call(LAMBDA v : Put(v, vals[n]), PutFirst(w, vals, n - 1))

PutAll(w, vals) == PutFirst(w, vals, Len(vals))

\* The vertex array of meshToSTL: vertex i is properties i*numProp + 0..2.
NumProp(mesh) == IF mesh.numProp = 0 THEN 3 ELSE mesh.numProp

VertexOf(mesh, i) ==
    << mesh.vertProperties[i * NumProp(mesh) + 1],
       mesh.vertProperties[i * NumProp(mesh) + 2],
       mesh.vertProperties[i * NumProp(mesh) + 3] >>

Sub(a, b) == << a[1] - b[1], a[2] - b[2], a[3] - b[3] >>

Cross(e1, e2) ==
    << e1[2] * e2[3] - e1[3] * e2[2],
       e1[3] * e2[1] - e1[1] * e2[3],
       e1[1] * e2[2] - e1[2] * e2[1] >>

\* len > 0 ? c / len : 0
UnitComponent(c, len) == IF len > 0 THEN TDiv(c * Den, len) ELSE 0

\* (mutant) a record without its attribute field.
RecordBytes_NoAttribute(n, len, v0, v1, v2) ==
    << F32(UnitComponent(n[1], len)), F32(UnitComponent(n[2], len)),
       F32(UnitComponent(n[3], len)),
       F32(v0[1]), F32(v0[2]), F32(v0[3]),
       F32(v1[1]), F32(v1[2]), F32(v1[3]),
       F32(v2[1]), F32(v2[2]), F32(v2[3]) >>

\* The 50 bytes of a triangle: normal, three vertices, attribute.
RecordBytes(n, len, v0, v1, v2) ==
    << F32(UnitComponent(n[1], len)), F32(UnitComponent(n[2], len)),
       F32(UnitComponent(n[3], len)),
       F32(v0[1]), F32(v0[2]), F32(v0[3]),
       F32(v1[1]), F32(v1[2]), F32(v1[3]),
       F32(v2[1]), F32(v2[2]), F32(v2[3]),
       U16(0) >>

FaceRecord(n, v0, v1, v2) ==
    RecordBytes(n, Isqrt(n[1] * n[1] + n[2] * n[2] + n[3] * n[3]), v0, v1, v2)

CornerRecord(v0, v1, v2) == FaceRecord(Cross(Sub(v1, v0), Sub(v2, v0)), v0, v1, v2)

\* The record of triangle t (from 0).
TriangleRecord(mesh, t) ==
    CornerRecord(VertexOf(mesh, mesh.triVerts[t * 3 + 1]),
                 VertexOf(mesh, mesh.triVerts[t * 3 + 2]),
                 VertexOf(mesh, mesh.triVerts[t * 3 + 3]))

\* The loop over the triangles, up to triangle numTris.
RECURSIVE WriteTriangles(_, _, _)
WriteTriangles(w, mesh, numTris) ==
    IF numTris = 0 THEN w
    ELSE Call(LAMBDA v : PutAll(v, TriangleRecord(mesh, numTris - 1)),
              WriteTriangles(w, mesh, numTris - 1))

Zeros(n) == [i \in 1..n |-> 0]

NumTris(mesh) == Len(mesh.triVerts) \div 3

BufferSize(mesh) == headerSize + countSize + NumTris(mesh) * triangleSize

\* The allocation, the header and the triangle count.
StlHead(mesh) ==
    Put(Put([size |-> BufferSize(mesh), written |-> <<>>, threw |-> FALSE],
            header \o Zeros(headerSize - Len(header))),
        U32(NumTris(mesh)))

Finished(w) ==
    [buffer |-> w.written \o Zeros(w.size - Len(w.written)),
     offset |-> Len(w.written),
     threw |-> w.threw]

\* meshToSTL up to its return: the buffer (zero where nothing was written),
\* the final write offset, and whether a write threw.
StlWrite(mesh) == Finished(WriteTriangles(StlHead(mesh), mesh, NumTris(mesh)))

meshToSTL(mesh) == StlWrite(mesh).buffer

----------------------------------------------------------------------------
(* The worker's message handler (self.onmessage), one operator per request *)
(* kind.  `c` holds what the environment decides while the request is      *)
(* handled: where the kernel throws (fault, failAt), whether it rejects a  *)
(* released handle (staleThrows) and the mesh it evaluates (pick).         *)

KernelError == "kernel error"
NoGeometry == "No geometry generated"
NoTree == "No tree generated yet. Generate a tree first."
ExportFailed == "STL export failed: kernel error"
InitFailedText == "Init failed: kernel error"

Reply(t, p) == [type |-> t, payload |-> p]

Handled(cur, k, replies, realized, n) ==
    [currentSolid |-> cur, kernel |-> Settle(k, cur), replies |-> replies,
     realized |-> realized, nSolids |-> n]

\* The Float32Array of positions and the indices posted with TREE_READY.
ExtractPositions(mesh) ==
    [i \in 1..((Len(mesh.vertProperties) \div NumProp(mesh)) * 3) |->
        mesh.vertProperties[((i - 1) \div 3) * NumProp(mesh) + ((i - 1) % 3) + 1]]

TreeReady(mesh) ==
    Reply("TREE_READY", [vertices |-> ExtractPositions(mesh), indices |-> mesh.triVerts])

\* GENERATE_TREE, from getMesh() on.
GenReadOut(solid, k, n) ==
    Handled(solid, k, <<TreeReady(MeshPool[k.mesh[solid]])>>, TRUE, n)

\* GENERATE_TREE, after `currentSolid = binaryUnion(solids)`.
GenUnion(cur, n, u, c) ==
    IF u.threw
    THEN Handled(cur, u.k, <<Reply("ERROR", KernelError)>>, TRUE, n)
    ELSE IF c.fault = "readout"
    THEN Handled(u.res, u.k, <<Reply("ERROR", KernelError)>>, TRUE, n)
    ELSE GenReadOut(u.res, GetMesh(u.k, u.res, c.pick), n)

\* `if (currentSolid) currentSolid.delete()`
ReleasePrevious(k, cur) == IF cur # 0 THEN Delete(k, cur).k ELSE k

\* (mutant) the previous solid is released before the empty check.
GenRealized_ReleaseFirst(cur, k0, r, c) ==
    IF c.fault = "realize"
    THEN Handled(cur, k0, <<Reply("ERROR", KernelError)>>, FALSE, 0)
    ELSE IF Len(r.solids) = 0
    THEN Handled(cur, ReleasePrevious(r.k, cur), <<Reply("ERROR", NoGeometry)>>, TRUE, 0)
    ELSE IF cur # 0 /\ cur \in r.k.released /\ c.staleThrows
    THEN Handled(cur, r.k, <<Reply("ERROR", KernelError)>>, TRUE, Len(r.solids))
    ELSE GenUnion(cur, Len(r.solids),
                  binaryUnion(ReleasePrevious(r.k, cur), r.solids, c.failAt), c)

\* GENERATE_TREE, after the two loops that realize the solids.
GenRealized(cur, k0, r, c) ==
    IF c.fault = "realize"
    THEN Handled(cur, k0, <<Reply("ERROR", KernelError)>>, FALSE, 0)
    ELSE IF Len(r.solids) = 0
    THEN Handled(cur, r.k, <<Reply("ERROR", NoGeometry)>>, TRUE, 0)
    ELSE IF cur # 0 /\ cur \in r.k.released /\ c.staleThrows
    THEN Handled(cur, r.k, <<Reply("ERROR", KernelError)>>, TRUE, Len(r.solids))
    ELSE GenUnion(cur, Len(r.solids),
                  binaryUnion(ReleasePrevious(r.k, cur), r.solids, c.failAt), c)

onGenerateTree(cur, k0, payload, c) ==
    GenRealized(cur, k0, Realize(Run(k0), payload), c)

\* (mutant) the export copy multiplied by modelScale.
ScaledMesh_Enlarged(mesh, modelScale) ==
    [mesh EXCEPT !.vertProperties =
        [i \in 1..Len(mesh.vertProperties) |-> mesh.vertProperties[i] * modelScale]]

\* The export copy: every vertex property times 1 / modelScale.
ScaledMesh(mesh, modelScale) ==
    [mesh EXCEPT !.vertProperties =
        [i \in 1..Len(mesh.vertProperties) |->
            TDiv(mesh.vertProperties[i] * (Den \div modelScale), Den)]]

\* payload?.modelScale ?? 1
ModelScale(payload) ==
    IF "modelScale" \in DOMAIN payload THEN payload.modelScale ELSE 1

ExportWritten(cur, k, w) ==
    IF w.threw
    THEN Handled(cur, k, <<Reply("ERROR", ExportFailed)>>, FALSE, 0)
    ELSE Handled(cur, k, <<Reply("STL_READY", w.buffer)>>, FALSE, 0)

\* EXPORT_STL, from getMesh() on.
ExportMesh(cur, k, modelScale) ==
    ExportWritten(cur, k, StlWrite(ScaledMesh(MeshPool[k.mesh[cur]], modelScale)))

onExportStl(cur, k0, payload, c) ==
    IF cur = 0
    THEN Handled(cur, k0, <<Reply("ERROR", NoTree)>>, FALSE, 0)
    ELSE IF (cur \in k0.released /\ c.staleThrows) \/ c.fault = "readout"
    THEN Handled(cur, k0, <<Reply("ERROR", ExportFailed)>>, FALSE, 0)
    ELSE ExportMesh(cur, GetMesh(k0, cur, c.pick), ModelScale(payload))

\* The choices open to the environment while a request is handled.
GenerateChoices(cur, k0, payload) ==
    LET n == Len(Realize(Run(k0), payload).solids)
        stale == IF cur # 0 /\ cur \in k0.released THEN BOOLEAN ELSE {TRUE}
    IN { [fault |-> "none", failAt |-> 0, staleThrows |-> s, pick |-> m] :
            s \in stale, m \in 1..Len(MeshPool) }
       \cup { [fault |-> f, failAt |-> 0, staleThrows |-> TRUE, pick |-> 1] :
            f \in IF n > 0 THEN {"realize", "readout"} ELSE {} }
       \cup { [fault |-> "union", failAt |-> i, staleThrows |-> TRUE, pick |-> 1] :
            i \in 1..(n - 1) }

ExportChoices(cur, k0) ==
    LET stale == IF cur \in k0.released THEN BOOLEAN ELSE {TRUE}
        picks == IF cur \in DOMAIN k0.mesh THEN {1} ELSE 1..Len(MeshPool)
    IN { [fault |-> "none", failAt |-> 0, staleThrows |-> s, pick |-> m] :
            s \in stale, m \in picks }
       \cup { [fault |-> "readout", failAt |-> 0, staleThrows |-> TRUE, pick |-> 1] }

----------------------------------------------------------------------------
(* The worker as a process: it takes the oldest message of its inbox and   *)
(* runs the handler on it; the replies go to the outbox.                   *)

Post(replies, re) == [i \in 1..Len(replies) |->
                        Response(replies[i].type, re, replies[i].payload)]

Types(replies) == [i \in 1..Len(replies) |-> replies[i].type]

NoneExported == [S \in ScalePool |-> <<>>]

\* The buffers exported since the stored solid was assigned.
Exported(m, h) ==
    IF h.currentSolid # currentSolid THEN NoneExported
    ELSE IF m.type = "EXPORT_STL" /\ Types(h.replies) = <<"STL_READY">>
    THEN [exported EXCEPT ![ModelScale(m.payload)] = h.replies[1].payload]
    ELSE exported

Seen(m, replies, realized, n) ==
    [type |-> m.type, re |-> m.id, replies |-> Types(replies),
     text |-> IF Len(replies) = 1 /\ replies[1].type = "ERROR"
              THEN replies[1].payload ELSE "",
     realized |-> realized, nSolids |-> n,
     payload |-> IF m.type = "GENERATE_TREE" THEN m.payload ELSE NoPayload,
     manifoldBefore |-> manifold, solidBefore |-> currentSolid,
     releasedBefore |-> kernel.released, meshBefore |-> kernel.mesh,
     okGenBefore |-> okGen,
     initFailedBefore |-> initFailed, initOkBefore |-> initOk,
     scale |-> IF m.type = "EXPORT_STL" THEN ModelScale(m.payload) ELSE 0,
     buffer |-> IF Types(replies) = <<"STL_READY">> THEN replies[1].payload ELSE <<>>,
     exportedBefore |-> exported]

\* INIT: initialize() runs up to `await initManifold()`.
WorkerInit ==
    /\ inbox # <<>> /\ Head(inbox).type = "INIT"
    /\ inbox' = Tail(inbox)
    /\ initPending' = initPending \cup {Head(inbox).id}
    /\ UNCHANGED <<manifold, currentSolid, kernel, outbox, sent, last, okGen, initFailed, initOk, exported>>

\* initManifold() and setup() succeeded: the rest of initialize().
InitSucceeds(id) ==
    /\ id \in initPending
    /\ initPending' = initPending \ {id}
    /\ manifold' = TRUE
    /\ outbox' = Append(outbox, Response("READY", id, NoPayload))
    /\ last' = Seen([type |-> "INIT", id |-> id], <<Reply("READY", NoPayload)>>, FALSE, 0)
    /\ initFailed' = FALSE
    /\ initOk' = TRUE
    /\ exported' = exported
    /\ UNCHANGED <<currentSolid, kernel, inbox, sent, okGen>>

\* (mutant) the handle is assigned before the call that throws.
InitFails_HandleKept(id) ==
    /\ id \in initPending
    /\ initPending' = initPending \ {id}
    /\ manifold' = TRUE
    /\ outbox' = Append(outbox, Response("ERROR", id, InitFailedText))
    /\ last' = Seen([type |-> "INIT", id |-> id], <<Reply("ERROR", InitFailedText)>>, FALSE, 0)
    /\ initFailed' = TRUE
    /\ initOk' = initOk
    /\ exported' = exported
    /\ UNCHANGED <<currentSolid, kernel, inbox, sent, okGen>>

\* initManifold() or setup() threw: the catch block of initialize().
InitFails(id) ==
    /\ id \in initPending
    /\ initPending' = initPending \ {id}
    /\ outbox' = Append(outbox, Response("ERROR", id, InitFailedText))
    /\ last' = Seen([type |-> "INIT", id |-> id], <<Reply("ERROR", InitFailedText)>>, FALSE, 0)
    /\ initFailed' = TRUE
    /\ initOk' = initOk
    /\ exported' = exported
    /\ UNCHANGED <<manifold, currentSolid, kernel, inbox, sent, okGen>>

WorkerInitDone == \E id \in initPending : InitSucceeds(id) \/ InitFails(id)

\* GENERATE_TREE while the kernel handle is not set: `if (!manifold) return`.
WorkerGenerateDropped ==
    /\ inbox # <<>> /\ Head(inbox).type = "GENERATE_TREE"
    /\ ~manifold
    /\ inbox' = Tail(inbox)
    /\ last' = Seen(Head(inbox), <<>>, FALSE, 0)
    /\ UNCHANGED <<manifold, initPending, currentSolid, kernel, outbox, sent, okGen, initFailed, initOk, exported>>

\* The effects of a handler run `h` on message m.
Answer(m, h) ==
    /\ currentSolid' = h.currentSolid
    /\ kernel' = h.kernel
    /\ outbox' = outbox \o Post(h.replies, m.id)
    /\ last' = Seen(m, h.replies, h.realized, h.nSolids)
    /\ okGen' = (okGen \/ Types(h.replies) = <<"TREE_READY">>)
    /\ exported' = Exported(m, h)

WorkerGenerate ==
    /\ inbox # <<>> /\ Head(inbox).type = "GENERATE_TREE"
    /\ manifold
    /\ \E c \in GenerateChoices(currentSolid, kernel, Head(inbox).payload) :
         Answer(Head(inbox),
                onGenerateTree(currentSolid, kernel, Head(inbox).payload, c))
    /\ inbox' = Tail(inbox)
    /\ UNCHANGED <<manifold, initPending, sent, initFailed, initOk>>

WorkerExport ==
    /\ inbox # <<>> /\ Head(inbox).type = "EXPORT_STL"
    /\ \E c \in ExportChoices(currentSolid, kernel) :
         Answer(Head(inbox), onExportStl(currentSolid, kernel, Head(inbox).payload, c))
    /\ inbox' = Tail(inbox)
    /\ UNCHANGED <<manifold, initPending, sent, initFailed, initOk>>

----------------------------------------------------------------------------
(* An arbitrary client of the worker: it posts any request, one at a time  *)
(* (the worker handles its messages in order whatever their spacing), and  *)
(* takes the replies off the outbox.                                       *)

Requests(i) ==
    {Request("INIT", i, NoPayload)}
    \cup {Request("GENERATE_TREE", i, p) : p \in PayloadPool}
    \cup {Request("EXPORT_STL", i, p) : p \in ExportPayloads}

ClientPost ==
    /\ sent < MaxRequests
    /\ inbox = <<>> /\ outbox = <<>>
    /\ \E m \in Requests(sent + 1) : inbox' = Append(inbox, m)
    /\ sent' = sent + 1
    /\ UNCHANGED <<manifold, initPending, currentSolid, kernel, outbox, last, okGen, initFailed, initOk, exported>>

ClientTake ==
    /\ outbox # <<>>
    /\ outbox' = Tail(outbox)
    /\ UNCHANGED <<manifold, initPending, currentSolid, kernel, inbox, sent, last, okGen, initFailed, initOk, exported>>

NoneSeen ==
    [type |-> "NONE", re |-> 0, replies |-> <<>>, text |-> "", realized |-> FALSE,
     nSolids |-> 0, manifoldBefore |-> FALSE, solidBefore |-> 0,
     releasedBefore |-> {}, meshBefore |-> <<>>, okGenBefore |-> FALSE,
     initFailedBefore |-> FALSE, initOkBefore |-> FALSE,
     scale |-> 0, buffer |-> <<>>, exportedBefore |-> NoneExported]

WorkerStart ==
    /\ manifold = FALSE
    /\ initPending = {}
    /\ currentSolid = 0
    /\ kernel = NewKernel
    /\ outbox = <<>>
    /\ last = NoneSeen
    /\ okGen = FALSE
    /\ initFailed = FALSE
    /\ initOk = FALSE
    /\ exported = NoneExported

ClientStart == inbox = <<>> /\ sent = 0

----------------------------------------------------------------------------
(* meshToSTL called on its own, on any mesh of a bounded family: four      *)
(* vertices, with or without a fourth property per vertex, and up to       *)
(* MaxTris triangles (degenerate ones included).                           *)

VertexPool == << <<0, 0, 0>>, <<4, 0, 0>>, <<0, 8, 0>>, <<0, 0, 12>> >>

TrianglePool == { <<0, 1, 2>>, <<0, 2, 3>>, <<1, 1, 2>>, <<3, 2, 1>> }

\* The properties of the pool's vertices, n per vertex (a fourth is 20).
Properties(n) ==
    [i \in 1..(Len(VertexPool) * n) |->
        IF (i - 1) % n < 3
        THEN VertexPool[((i - 1) \div n) + 1][((i - 1) % n) + 1]
        ELSE 20]

VertProperties(np) == Properties(NumProp([numProp |-> np]))

TriVerts(ts) ==
    [i \in 1..(3 * Len(ts)) |-> ts[((i - 1) \div 3) + 1][((i - 1) % 3) + 1]]

StlMeshes ==
    { Mesh(np, VertProperties(np), TriVerts(ts)) :
        np \in {0, 3, 4},
        ts \in UNION { [1..n -> TrianglePool] : n \in 0..MaxTris } }

NotCalled == [called |-> FALSE]

StlStart == stlIn = MeshPool[1] /\ stlOut = NotCalled

StlInit == stlIn \in StlMeshes /\ stlOut = NotCalled

\* const stlBuffer = meshToSTL(mesh)
CallMeshToSTL ==
    /\ stlOut = NotCalled
    /\ stlOut' = [called |-> TRUE, w |-> StlWrite(stlIn)]
    /\ UNCHANGED stlIn

NextMesh ==
    /\ stlOut # NotCalled
    /\ stlIn' \in StlMeshes
    /\ stlOut' = NotCalled

----------------------------------------------------------------------------
(* RealisticTreeGenerator.  Lengths, radii, ratios and angles are          *)
(* fixed-point numbers: the integer k stands for k / Scale.                *)

Scale == 1000

\* random(): seed = (seed * 1103515245 + 12345) & 0x7fffffff on JavaScript
\* numbers.  The product exceeds 2^53, so it and the sum are each rounded
\* to 53 significant bits (ties to even) before the low 31 bits are taken.
\* Numbers are held as limbs of 11 bits, least significant first.
Limb == 2048

Limbs(n) == << n % Limb, (n \div Limb) % Limb, n \div (Limb * Limb) >>

Multiplier == <<1645, 201, 263>>

Increment == <<57, 6>>

Product(s, a) ==
    << s[1] * a[1],
       s[1] * a[2] + s[2] * a[1],
       s[1] * a[3] + s[2] * a[2] + s[3] * a[1],
       s[2] * a[3] + s[3] * a[2],
       s[3] * a[3],
       0 >>

RECURSIVE Carry(_, _, _)
Carry(d, i, c) ==
    IF i > Len(d) THEN <<>>
    ELSE <<(d[i] + c) % Limb>> \o Carry(d, i + 1, (d[i] + c) \div Limb)

RECURSIVE TopLimb(_, _)
TopLimb(n, i) == IF i = 0 THEN 0 ELSE IF n[i] # 0 THEN i ELSE TopLimb(n, i - 1)

\* The bits of n below its 53 most significant ones.
DroppedAt(n, top) ==
    IF top = 0 \/ 11 * (top - 1) + Log2Floor(n[top]) < 53 THEN 0
    ELSE 11 * (top - 1) + Log2Floor(n[top]) - 52

RoundUp(q, rem, unit) ==
    IF 2 * rem > unit \/ (2 * rem = unit /\ q % 2 = 1) THEN 1 ELSE 0

RoundedLow(c, unit) == unit * ((c \div unit) + RoundUp(c \div unit, c % unit, unit))

Carried(d) == Carry(d, 1, 0)

\* n as the nearest JavaScript number.
Double(n) ==
    Call(Carried, [n EXCEPT ![1] = RoundedLow(n[1], 2 ^ DroppedAt(n, TopLimb(n, Len(n))))])

Add(n, m) ==
    Call(Carried, [i \in 1..Len(n) |-> n[i] + (IF i <= Len(m) THEN m[i] ELSE 0)])

AddIncrement(n) == Add(n, Increment)

Low31(n) == n[1] + Limb * n[2] + Limb * Limb * (n[3] % 512)

\* The seed after one call of random().
NextSeed(seed) ==
    Low31(Call(Double, Call(AddIncrement,
                            Call(Double, Call(Carried, Product(Limbs(seed), Multiplier))))))

\* The value random() returns: seed / 0x7fffffff.
Random(seed) ==
    IF seed = 2147483647 THEN Scale
    ELSE ((seed \div Limb) * Scale) \div 1048576

\* randomRange(min, max), given the seed random() left.
RandomRange(seed, min, max) == min + TDiv(Random(seed) * (max - min), Scale)

\* The seeds after 1, 2, ... n calls of random().
RECURSIVE Seeds(_, _)
Seeds(seed, n) ==
    IF n = 0 THEN <<>>
    ELSE Call(LAMBDA s : <<s>> \o Seeds(s, n - 1), NextSeed(seed))

Max(a, b) == IF a >= b THEN a ELSE b

Min(a, b) == IF a <= b THEN a ELSE b

\* Products and quotients of fixed-point numbers.
Mul(a, b) == TDiv(a * b, Scale)

Div(a, b) == TDiv(a * Scale, b)

Pi == 3142

\* Math.sin and Math.cos, by Bhaskara's approximation on a half period
\* (within 0.002 of the sine).
Bhaskara(p) == (16 * Scale * p) \div (49348 - 4 * p)

SinHalf(x) == Bhaskara((x * (Pi - x)) \div Scale)

SinReduced(m) == IF m <= Pi THEN SinHalf(m) ELSE -SinHalf(m - Pi)

Sin(x) == SinReduced(x % (2 * Pi))

Cos(x) == Sin(x + Pi \div 2)

\* Vector3.
VAdd(a, b) == << a[1] + b[1], a[2] + b[2], a[3] + b[3] >>

VScale(v, k) == << Mul(v[1], k), Mul(v[2], k), Mul(v[3], k) >>

VLength(v) == Isqrt(v[1] * v[1] + v[2] * v[2] + v[3] * v[3])

\* divideScalar(length || 1)
VOver(v, len) ==
    IF len = 0 THEN v ELSE << Div(v[1], len), Div(v[2], len), Div(v[3], len) >>

Normalized(v) == Call(LAMBDA len : VOver(v, len), VLength(v))

Normalize(v) == Call(Normalized, v)

CrossVectors(a, b) ==
    << Mul(a[2], b[3]) - Mul(a[3], b[2]),
       Mul(a[3], b[1]) - Mul(a[1], b[3]),
       Mul(a[1], b[2]) - Mul(a[2], b[1]) >>

Lerp(a, b, alpha) == VAdd(a, VScale(Sub(b, a), alpha))

TREE_PRESETS ==
    [linden |-> [trunkHeightRatio |-> 300, trunkDiameterRatio |-> 28,
                 branchAngleBase |-> 785, branchAngleVariation |-> 300,
                 radiusDecay |-> 580, lengthDecay |-> 750, crownShape |-> "oval",
                 maxBranchLevels |-> 7, terminalBranchCount |-> 3,
                 leaderRatio |-> 900, terminalCurvature |-> 80,
                 branchesPerLevel |-> 6],
     oak |-> [trunkHeightRatio |-> 250, trunkDiameterRatio |-> 45,
              branchAngleBase |-> 1047, branchAngleVariation |-> 400,
              radiusDecay |-> 580, lengthDecay |-> 700, crownShape |-> "dome",
              maxBranchLevels |-> 5, terminalBranchCount |-> 3,
              leaderRatio |-> 800, terminalCurvature |-> 100,
              branchesPerLevel |-> 5],
     birch |-> [trunkHeightRatio |-> 400, trunkDiameterRatio |-> 22,
                branchAngleBase |-> 898, branchAngleVariation |-> 300,
                radiusDecay |-> 600, lengthDecay |-> 720, crownShape |-> "dome",
                maxBranchLevels |-> 6, terminalBranchCount |-> 3,
                leaderRatio |-> 850, terminalCurvature |-> 180,
                branchesPerLevel |-> 5],
     spruce |-> [trunkHeightRatio |-> 20, trunkDiameterRatio |-> 16,
                 branchAngleBase |-> 1571, branchAngleVariation |-> 30,
                 radiusDecay |-> 500, lengthDecay |-> 920, crownShape |-> "pyramidal",
                 maxBranchLevels |-> 3, terminalBranchCount |-> 2,
                 leaderRatio |-> 1000, terminalCurvature |-> -80,
                 branchesPerLevel |-> 8],
     pine |-> [trunkHeightRatio |-> 500, trunkDiameterRatio |-> 12,
               branchAngleBase |-> 1366, branchAngleVariation |-> 400,
               radiusDecay |-> 580, lengthDecay |-> 720, crownShape |-> "umbrella",
               maxBranchLevels |-> 5, terminalBranchCount |-> 3,
               leaderRatio |-> 500, terminalCurvature |-> 60,
               branchesPerLevel |-> 6]]

AGE_MODIFIERS ==
    [young |-> [trunkThicknessMultiplier |-> 600, branchDensityMultiplier |-> 700,
                irregularity |-> 100, maxLevelsAdjust |-> -2],
     mature |-> [trunkThicknessMultiplier |-> 1000, branchDensityMultiplier |-> 1000,
                 irregularity |-> 200, maxLevelsAdjust |-> 0],
     old |-> [trunkThicknessMultiplier |-> 1400, branchDensityMultiplier |-> 1300,
              irregularity |-> 400, maxLevelsAdjust |-> 1]]

\* The envelope is centred on the stem: center = (0, center, 0).
CrownEnvelope(cy, rx, ry, rz) ==
    [center |-> <<0, cy, 0>>, radiusX |-> rx, radiusY |-> ry, radiusZ |-> rz]

\* The point relative to the centre, each axis over its radius.
ScaledBy(env, point) ==
    << Div(point[1] - env.center[1], env.radiusX),
       Div(point[2] - env.center[2], env.radiusY),
       Div(point[3] - env.center[3], env.radiusZ) >>

getDirectionTowardSurface(env, point) == Normalize(ScaledBy(env, point))

distanceToCrownSurface(env, point) == VLength(ScaledBy(env, point)) - Scale

ShapeMultiplier(crownShape, normalizedY) ==
    CASE crownShape = "pyramidal" -> Scale - Mul(normalizedY, 900)
      [] crownShape = "umbrella" -> 200 + Mul(normalizedY, 800)
      [] crownShape = "dome" -> Sin(Mul(Mul(normalizedY, Pi), 800) + 200)
      [] OTHER -> Sin(Mul(normalizedY, Pi))

getCrownRadiusAtHeight(crownShape, y, crownBase, crownTop, maxRadius) ==
    IF y < crownBase \/ y > crownTop THEN 0
    ELSE Mul(maxRadius, ShapeMultiplier(crownShape, Div(y - crownBase, crownTop - crownBase)))

\* calculateBranchDirection, from the perpendicular vectors on.
Arbitrary(up) == IF Abs(up[2]) < 900 THEN <<0, Scale, 0>> ELSE <<Scale, 0, 0>>

Rotated(up, right, forward, theta, phi) ==
    Normalize(VAdd(VScale(up, Cos(theta)),
                   VScale(VAdd(VScale(right, Cos(phi)), VScale(forward, Sin(phi))),
                          Sin(theta))))

AroundRight(up, right, theta, phi) ==
    Call(LAMBDA forward : Rotated(up, right, forward, theta, phi),
         Normalize(CrossVectors(right, up)))

AroundUp(up, theta, phi) ==
    Call(LAMBDA right : AroundRight(up, right, theta, phi),
         Normalize(CrossVectors(up, Arbitrary(up))))

calculateBranchDirection(parentDir, theta, phi) ==
    Call(LAMBDA up : AroundUp(up, theta, phi), Normalize(parentDir))

GoldenAngle == 2400

BranchSegment(start, end, r1, r2) == [start |-> start, end |-> end, r1 |-> r1, r2 |-> r2]

\* The generator object as the constructor leaves it.
NoEnvelope == [absent |-> TRUE]

\* `depths` is history: for each segment of `segments`, the depth argument
\* of the call of generateBranchWithEnvelope that pushed it, -1 for the
\* trunk and the leader, which generateTree pushes itself.  `asked` and
\* `raised` are history too: the radius last computed for a child before
\* Math.max(..., minRadius), and the indexes of the segments pushed with a
\* radius that Math.max raised above the computed one.
NewGenerator ==
    [segments |-> <<>>, seed |-> 42, preset |-> TREE_PRESETS.linden,
     ageModifiers |-> AGE_MODIFIERS.mature, crownEnvelope |-> NoEnvelope,
     depths |-> <<>>, asked |-> 0, raised |-> {}]

\* One call of random(): the seed moves on.
Drawn(g) == [g EXCEPT !.seed = NextSeed(g.seed)]

\* (mutant) the end radius of a branch is 0.8 of its radius.
EndRadius_Steeper(radius) == Mul(radius, 800)

\* const endRadius = radius * 0.85
EndRadius(radius) == Mul(radius, 850)

\* The end point pulled back onto the envelope when it lies outside.
ShortenedBy(env, origin, endPoint, dist) ==
    IF dist > 0
    THEN Lerp(origin, endPoint,
              Div(Div(VLength(Sub(endPoint, env.center)), Scale + dist),
                  VLength(Sub(endPoint, env.center))))
    ELSE endPoint

Shortened(env, origin, endPoint) ==
    IF env = NoEnvelope THEN endPoint
    ELSE Call(LAMBDA dist : ShortenedBy(env, origin, endPoint, dist),
              distanceToCrownSurface(env, endPoint))

EndPoint(env, origin, direction, length) ==
    Call(LAMBDA endPoint : Shortened(env, origin, endPoint),
         VAdd(origin, VScale(direction, length)))

PhiChild(i, seed) == i * GoldenAngle + RandomRange(seed, -600, 600)

ThetaChild(preset, depth, maxLevels, seed) ==
    Mul(Mul(preset.branchAngleBase, 550), Scale - Mul((depth * Scale) \div maxLevels, 350))
    + RandomRange(seed, -Mul(preset.branchAngleVariation, 600),
                  Mul(preset.branchAngleVariation, 600))

SurfaceDir(env, point) ==
    IF env = NoEnvelope THEN <<0, Scale, 0>> ELSE getDirectionTowardSurface(env, point)

\* Near the last levels the child leans toward the envelope surface.
Attracted(env, endPoint, depth, maxLevels, childDir) ==
    IF depth >= maxLevels - 2
    THEN Normalize(Lerp(childDir, SurfaceDir(env, endPoint), 350))
    ELSE childDir

\* preset.terminalCurvature || 0.1
Curvature(preset) == IF preset.terminalCurvature = 0 THEN 100 ELSE preset.terminalCurvature

Curved(preset, depth, childDir) ==
    Normalize(<< childDir[1],
                 childDir[2] + Mul(Curvature(preset), 500 + depth * 150),
                 childDir[3] >>)

ChildDir(g, endPoint, direction, depth, maxLevels, theta, phi) ==
    Call(LAMBDA leaning : Curved(g.preset, depth, leaning),
         Call(LAMBDA childDir : Attracted(g.crownEnvelope, endPoint, depth, maxLevels, childDir),
              calculateBranchDirection(direction, theta, phi)))

RECURSIVE generateBranchWithEnvelope(_, _, _, _, _, _, _, _)
\* The call of generateBranchWithEnvelope on evaluated arguments.
Grow(a) ==
    generateBranchWithEnvelope(a.g, a.origin, a.direction, a.radius, a.length,
                               a.depth, a.minRadius, a.maxLevels)

\* childRadius * this.randomRange(0.9, 1.1), q the seed of the call
ActualRadius(preset, radius, q) ==
    Mul(Mul(radius, preset.radiusDecay), RandomRange(q, 900, 1100))

\* Child i, with the seeds q its four calls of random() leave.
ChildDrawn(q, g, endPoint, direction, radius, length, depth, minRadius, maxLevels, i) ==
    Call(Grow,
         [g |-> [g EXCEPT !.seed = q[4], !.asked = ActualRadius(g.preset, radius, q[4])],
          origin |-> endPoint,
          direction |-> ChildDir(g, endPoint, direction, depth, maxLevels,
                                 ThetaChild(g.preset, depth, maxLevels, q[2]),
                                 PhiChild(i, q[1])),
          radius |-> Max(ActualRadius(g.preset, radius, q[4]), minRadius),
          length |-> Mul(Mul(length, g.preset.lengthDecay), RandomRange(q[3], 750, 1250)),
          depth |-> depth + 1, minRadius |-> minRadius, maxLevels |-> maxLevels])

RECURSIVE Children(_, _, _, _, _, _, _, _, _, _)
Children(g, endPoint, direction, radius, length, depth, minRadius, maxLevels, i, numChildren) ==
    IF i >= numChildren THEN g
    ELSE Call(LAMBDA h : Children(h, endPoint, direction, radius, length, depth,
                                  minRadius, maxLevels, i + 1, numChildren),
              Call(LAMBDA q : ChildDrawn(q, g, endPoint, direction, radius, length,
                                         depth, minRadius, maxLevels, i),
                   Seeds(g.seed, 4)))

\* depth < 2 ? Math.floor(3 + this.random()) : terminalBranchCount, at most 4.
\* g is the generator after the call of random(), if one was made.
NumChildren(g, depth) ==
    Min(IF depth < 2 THEN (3 * Scale + Random(g.seed)) \div Scale
        ELSE g.preset.terminalBranchCount, 4)

Spawned(g, endPoint, direction, radius, length, depth, minRadius, maxLevels) ==
    Call(LAMBDA numChildren : Children(g, endPoint, direction, radius, length, depth,
                                       minRadius, maxLevels, 0, numChildren),
         NumChildren(g, depth))

Pushed1(g, segment, depth) ==
    [g EXCEPT !.segments = Append(@, segment), !.depths = Append(@, depth),
              !.raised = IF depth >= 1 /\ g.asked < segment.r1
                         THEN @ \cup {Len(g.segments) + 1} ELSE @]

\* The segment is pushed, then the children are generated.
Emitted(g, origin, endPoint, direction, radius, length, depth, minRadius, maxLevels) ==
    Call(LAMBDA h : Spawned(h, endPoint, direction, radius, length, depth,
                            minRadius, maxLevels),
         IF depth < 2
         THEN Drawn(Pushed1(g, BranchSegment(origin, endPoint, radius, EndRadius(radius)),
                            depth))
         ELSE Pushed1(g, BranchSegment(origin, endPoint, radius, EndRadius(radius)),
                      depth))

TooDeep_OneLate(depth, maxLevels) == depth > maxLevels

\* if (depth >= maxLevels) return;
TooDeep(depth, maxLevels) == depth >= maxLevels

generateBranchWithEnvelope(g, origin, direction, radius, length, depth, minRadius, maxLevels) ==
    IF TooDeep(depth, maxLevels) \/ radius < minRadius \/ length < 40 THEN g
    ELSE Call(LAMBDA endPoint : Emitted(g, origin, endPoint, direction, radius, length,
                                        depth, minRadius, maxLevels),
              EndPoint(g.crownEnvelope, origin, direction, length))

\* params.f ?? default
Opt(params, f, default) == IF f \in DOMAIN params THEN params[f] ELSE default

\* The tables are object literals: besides its own keys a table answers
\* the names it inherits from Object.prototype, with a function or an
\* object.  Such a member is truthy and has none of the fields of a
\* preset: every field read from it is undefined, and the arithmetic on
\* it gives NaN, written here as a number that no length, radius or
\* coordinate of a tree takes.
Inherited == {"constructor", "toString", "valueOf", "hasOwnProperty", "__proto__"}

Member == [inherited |-> TRUE]

NaN == -1000000000

\* TREE_PRESETS[name] || TREE_PRESETS.linden, AGE_MODIFIERS[name] || mature
PresetOf(name) ==
    IF name \in DOMAIN TREE_PRESETS THEN TREE_PRESETS[name]
    ELSE IF name \in Inherited THEN Member
    ELSE TREE_PRESETS.linden

AgeOf(name) ==
    IF name \in DOMAIN AGE_MODIFIERS THEN AGE_MODIFIERS[name]
    ELSE IF name \in Inherited THEN Member
    ELSE AGE_MODIFIERS.mature

\* (mutant) the seed of the previous call is kept.
Reset_SeedKept(inst, params) ==
    [segments |-> <<>>,
     seed |-> inst.seed,
     preset |-> PresetOf(Opt(params, "preset", "linden")),
     ageModifiers |-> AgeOf(Opt(params, "age", "mature")),
     crownEnvelope |-> inst.crownEnvelope,
     depths |-> <<>>, asked |-> 0, raised |-> {}]

\* The first four assignments of generateTree.
Reset(inst, params) ==
    [segments |-> <<>>,
     seed |-> Opt(params, "seed", 42),
     preset |-> PresetOf(Opt(params, "preset", "linden")),
     ageModifiers |-> AgeOf(Opt(params, "age", "mature")),
     crownEnvelope |-> inst.crownEnvelope,
     depths |-> <<>>, asked |-> 0, raised |-> {}]

IsConifer(preset) == preset.crownShape \in {"pyramidal", "umbrella"}

BaseOfCrown(preset, params) ==
    Mul(params.treeHeight, Opt(params, "trunkHeight", preset.trunkHeightRatio))

TrunkRadius(g, params, baseOfCrown) ==
    Mul(Mul(IF IsConifer(g.preset) THEN params.treeHeight ELSE baseOfCrown,
            g.preset.trunkDiameterRatio),
        g.ageModifiers.trunkThicknessMultiplier)

\* Math.floor(4 + (effectiveDensity / 10) * 11 * branchDensityMultiplier)
NumBranchLevels(ageModifiers, params) ==
    (4 * Scale + TDiv(Opt(params, "crownDensity", 5) * 11
                         * ageModifiers.branchDensityMultiplier, 10)) \div Scale

\* The constants generateTree computes before it pushes the trunk, and the
\* two it computes before the loop over the tiers.
MeasuresOf(g, params, baseOfCrown, trunkRadius, crownHeight) ==
    [treeHeight |-> params.treeHeight,
     baseOfCrown |-> baseOfCrown,
     trunkRadius |-> trunkRadius,
     minRadius |-> Max(Mul(params.minRadius, 250), 30),
     crownHeight |-> crownHeight,
     crownMaxRadius |-> Mul(Mul(crownHeight, 400), Opt(params, "crownWidth", Scale)),
     leaderHeight |-> Mul(crownHeight, g.preset.leaderRatio),
     maxLevels |-> Max(4, g.preset.maxBranchLevels + g.ageModifiers.maxLevelsAdjust),
     numBranchLevels |-> NumBranchLevels(g.ageModifiers, params)]

MeasuresFrom(g, params, baseOfCrown) ==
    MeasuresOf(g, params, baseOfCrown, TrunkRadius(g, params, baseOfCrown),
               params.treeHeight - baseOfCrown)

Measures(g, params) == MeasuresFrom(g, params, BaseOfCrown(g.preset, params))

\* The envelope, the trunk and the two segments of the leader.
Stem(g, d) ==
    [g EXCEPT
        !.crownEnvelope =
            CrownEnvelope(d.baseOfCrown + Mul(d.crownHeight, 480), d.crownMaxRadius,
                          Mul(d.crownHeight, 480), d.crownMaxRadius),
        !.depths = g.depths \o <<-1, -1, -1>>,
        !.segments = g.segments \o
            << BranchSegment(<<0, 0, 0>>, <<0, d.baseOfCrown, 0>>,
                             Mul(d.trunkRadius, 1300), d.trunkRadius),
               BranchSegment(<<0, d.baseOfCrown, 0>>,
                             <<0, d.baseOfCrown + Mul(d.leaderHeight, 500), 0>>,
                             d.trunkRadius, Mul(d.trunkRadius, 650)),
               BranchSegment(<<0, d.baseOfCrown + Mul(d.leaderHeight, 500), 0>>,
                             <<0, d.baseOfCrown + d.leaderHeight, 0>>,
                             Mul(d.trunkRadius, 650), Mul(d.trunkRadius, 400)) >>]

\* t = (level + 0.5) / numBranchLevels
TierT(level, numBranchLevels) == ((2 * level + 1) * Scale) \div (2 * numBranchLevels)

\* baseOfCrown + t * leaderHeight * 0.9
BranchHeight(d, t) == d.baseOfCrown + Mul(Mul(t, d.leaderHeight), 900)

\* (mutant) the branches of a tier start on the surface of the leader.
TierOrigin_OffAxis(d, t) == <<d.trunkRadius, BranchHeight(d, t), 0>>

\* new Vector3(0, branchHeight, 0)
TierOrigin(d, t) == <<0, BranchHeight(d, t), 0>>

LeaderRadiusHere(d, t) == Mul(Mul(d.trunkRadius, 900), Scale - Mul(t, 700))

AvailableRadius(g, d, t) ==
    getCrownRadiusAtHeight(g.preset.crownShape, BranchHeight(d, t), d.baseOfCrown,
                           d.treeHeight, d.crownMaxRadius)

\* preset.branchesPerLevel || 3
BaseCount(preset) ==
    IF preset = Member THEN 3
    ELSE IF preset.branchesPerLevel = 0 THEN 3 ELSE preset.branchesPerLevel

BranchesAtLevel(g, t) ==
    Max(2, Mul(Mul(BaseCount(g.preset) * Scale, Scale - Mul(t, 200)),
               g.ageModifiers.branchDensityMultiplier) \div Scale)

PhiPrimary(i, level, seed) == i * GoldenAngle + level * 500 + RandomRange(seed, -400, 400)

ThetaPrimary(preset, t, seed) ==
    Mul(preset.branchAngleBase, Scale - Mul(t, 250))
    + RandomRange(seed, -preset.branchAngleVariation, preset.branchAngleVariation)

\* Branch i of a tier, with the seeds q its three calls of random() leave.
PrimaryDrawn(q, g, d, level, t, baseBranchLength, i) ==
    Call(Grow,
         [g |-> [g EXCEPT !.seed = q[3]],
          origin |-> TierOrigin(d, t),
          direction |-> calculateBranchDirection(<<0, Scale, 0>>,
                                                 ThetaPrimary(g.preset, t, q[2]),
                                                 PhiPrimary(i, level, q[1])),
          radius |-> Mul(LeaderRadiusHere(d, t), 350 + Mul(Random(q[3]), 250)),
          length |-> baseBranchLength,
          depth |-> 0, minRadius |-> d.minRadius, maxLevels |-> d.maxLevels])

RECURSIVE Primaries(_, _, _, _, _, _, _)
Primaries(g, d, level, t, baseBranchLength, i, branchesAtLevel) ==
    IF i >= branchesAtLevel THEN g
    ELSE Call(LAMBDA h : Primaries(h, d, level, t, baseBranchLength, i + 1, branchesAtLevel),
              Call(LAMBDA q : PrimaryDrawn(q, g, d, level, t, baseBranchLength, i),
                   Seeds(g.seed, 3)))

\* The loop over the branches of a tier.
TierOf(a) == Primaries(a.g, a.d, a.level, a.t, a.baseBranchLength, 0, a.branchesAtLevel)

\* One tier; g is the generator after the call of random() for its length.
TierDrawn(g, d, level, t) ==
    Call(TierOf,
         [g |-> g, d |-> d, level |-> level, t |-> t,
          baseBranchLength |-> Mul(AvailableRadius(g, d, t), RandomRange(g.seed, 850, 1100)),
          branchesAtLevel |-> BranchesAtLevel(g, t)])

RECURSIVE Tiers(_, _, _)
Tiers(g, d, level) ==
    IF level >= d.numBranchLevels THEN g
    ELSE Call(LAMBDA h : Tiers(h, d, level + 1),
              Call(LAMBDA drawn : TierDrawn(drawn, d, level, TierT(level, d.numBranchLevels)),
                   Drawn(g)))

GrownWith(g, d) == Call(LAMBDA stem : Tiers(stem, d, 0), Stem(g, d))

GrownFrom(g, params) == Call(LAMBDA d : GrownWith(g, d), Measures(g, params))

\* generateTree when this.preset or this.ageModifiers is a member of
\* Object.prototype.  trunkRadius is NaN, so every radius is.  With a
\* preset the heights are numbers; without one leaderHeight is NaN, and
\* baseOfCrown is unless params.trunkHeight gives it.
BaseNaN(g, params) ==
    IF g.preset # Member THEN BaseOfCrown(g.preset, params)
    ELSE IF "trunkHeight" \in DOMAIN params THEN Mul(params.treeHeight, params.trunkHeight)
    ELSE NaN

\* a + b and a * b / Scale, NaN if either is
AddNaN(a, b) == IF a = NaN \/ b = NaN THEN NaN ELSE a + b

MulNaN(a, b) == IF a = NaN \/ b = NaN THEN NaN ELSE Mul(a, b)

LeaderNaN(g, crownHeight) ==
    IF g.preset # Member THEN MulNaN(crownHeight, g.preset.leaderRatio) ELSE NaN

StemNaN(g, params, baseOfCrown, crownHeight, crownMaxRadius, leaderHeight) ==
    [g EXCEPT
        !.crownEnvelope =
            CrownEnvelope(AddNaN(baseOfCrown, MulNaN(crownHeight, 480)), crownMaxRadius,
                          MulNaN(crownHeight, 480), crownMaxRadius),
        !.depths = g.depths \o <<-1, -1, -1>>,
        !.segments = g.segments \o
            << BranchSegment(<<0, 0, 0>>, <<0, baseOfCrown, 0>>, NaN, NaN),
               BranchSegment(<<0, baseOfCrown, 0>>,
                             <<0, AddNaN(baseOfCrown, MulNaN(leaderHeight, 500)), 0>>,
                             NaN, NaN),
               BranchSegment(<<0, AddNaN(baseOfCrown, MulNaN(leaderHeight, 500)), 0>>,
                             <<0, AddNaN(baseOfCrown, leaderHeight), 0>>, NaN, NaN) >>]

\* A primary branch without a preset: no guard of generateBranchWithEnvelope
\* holds of NaN, so the branch is pushed, with Math.floor(3 + random()) = 3
\* children at depth 0 and at depth 1 and Math.min(undefined, 4) = NaN,
\* that is none, at depth 2.  The calls of random() are not followed: no
\* number of the result depends on them, and the next call sets the seed.
PrimaryNaN ==
    << BranchSegment(<<0, NaN, 0>>, <<NaN, NaN, NaN>>, NaN, NaN) >>
    \o [i \in 1..12 |-> BranchSegment(<<NaN, NaN, NaN>>, <<NaN, NaN, NaN>>, NaN, NaN)]

PrimaryDepthsNaN == <<0, 1, 2, 2, 2, 1, 2, 2, 2, 1, 2, 2, 2>>

RECURSIVE PrimariesNaN(_, _)
PrimariesNaN(g, branchesAtLevel) ==
    IF branchesAtLevel = 0 THEN g
    ELSE PrimariesNaN([g EXCEPT !.segments = @ \o PrimaryNaN,
                                !.depths = @ \o PrimaryDepthsNaN],
                      branchesAtLevel - 1)

RECURSIVE TiersNaN(_, _, _)
TiersNaN(g, numBranchLevels, level) ==
    IF level >= numBranchLevels THEN g
    ELSE TiersNaN(PrimariesNaN(g, BranchesAtLevel(g, TierT(level, numBranchLevels))),
                  numBranchLevels, level + 1)

\* With this.ageModifiers a member numBranchLevels is NaN and the loop over
\* the tiers is not entered; else this.preset is the member and the tiers
\* are those of PrimaryNaN.
GrownNaNFrom(g, params, baseOfCrown, crownHeight) ==
    Call(LAMBDA stem :
            IF g.ageModifiers = Member THEN stem
            ELSE TiersNaN(stem, NumBranchLevels(g.ageModifiers, params), 0),
         StemNaN(g, params, baseOfCrown, crownHeight,
                 MulNaN(MulNaN(crownHeight, 400), Opt(params, "crownWidth", Scale)),
                 LeaderNaN(g, crownHeight)))

GrownNaN(g, params) ==
    Call(LAMBDA baseOfCrown :
            GrownNaNFrom(g, params, baseOfCrown,
                         IF baseOfCrown = NaN THEN NaN ELSE params.treeHeight - baseOfCrown),
         BaseNaN(g, params))

\* generateTree: the generator object when it returns; its segments are
\* the array returned.
generateTree(inst, params) ==
    Call(LAMBDA g : IF g.preset = Member \/ g.ageModifiers = Member
                    THEN GrownNaN(g, params)
                    ELSE GrownFrom(g, params),
         Reset(inst, params))

----------------------------------------------------------------------------
(* Callers of the generator.  A caller constructs a generator object and   *)
(* calls generateTree on it, any number of times, with parameter objects   *)
(* of its choice; the Tree component passes the six fields                 *)
(* treeHeight, minRadius, seed, preset, age and crownWidth                 *)
(* (Tree.tsx:216-223), the signature also admits trunkHeight and           *)
(* crownDensity.                                                           *)

Params(treeHeight, minRadius, seed, preset, age, crownWidth) ==
    [treeHeight |-> treeHeight, minRadius |-> minRadius, seed |-> seed,
     preset |-> preset, age |-> age, crownWidth |-> crownWidth]

\* The parameter object p with the optional field f set.
With(p, f, value) == [k \in DOMAIN p \cup {f} |-> IF k = f THEN value ELSE p[k]]

ParamPool ==
    { Params(8000, 160, 2, "oak", "mature", 100),
      With(Params(8000, 160, 2, "oak", "mature", 100), "crownDensity", 1),
      With(Params(8000, 160, 2, "oak", "mature", 100), "trunkHeight", 200),
      Params(8000, 200, 2, "pine", "old", 100) }

\* The six fields the Tree component passes.
SixOf(p) ==
    <<p.treeHeight, p.minRadius, p.seed, p.preset, p.age, p.crownWidth>>

NoneReturned == [called |-> FALSE]

NotYet == [called |-> FALSE]

GenStart ==
    /\ generator = NewGenerator
    /\ returned = NoneReturned
    /\ firstOf = [p \in ParamPool |-> NotYet]
    /\ log = <<>>
    /\ made = 0

\* new RealisticTreeGenerator()
Construct ==
    /\ log # <<>>
    /\ generator' = NewGenerator
    /\ log' = <<>>
    /\ UNCHANGED <<returned, firstOf, made>>

Recorded(first, params, segments) ==
    IF first[params].called THEN first
    ELSE [first EXCEPT ![params] = [called |-> TRUE, segments |-> segments]]

\* generator.generateTree(params)
CallGenerateTree ==
    \E params \in ParamPool :
        /\ made < MaxCalls
        /\ generator' = generateTree(generator, params)
        /\ returned' = [called |-> TRUE, params |-> params,
                        segments |-> generator'.segments,
                        depths |-> generator'.depths,
                        crownEnvelope |-> generator'.crownEnvelope]
        /\ firstOf' = Recorded(firstOf, params, generator'.segments)
        /\ log' = Append(log, params)
        /\ made' = made + 1

\* The species and ages of the preset tables.
Species == DOMAIN TREE_PRESETS

Ages == DOMAIN AGE_MODIFIERS

\* Parameter objects for a single call: every species and age at a radius
\* that leaves the trunk and the leader only, and trees with branches.
TreePool ==
    { Params(treeHeight, 400, seed, preset, age, 100) :
        treeHeight \in {6000, 8000}, seed \in {1, 2}, preset \in Species, age \in Ages }
    \cup { Params(5000, 160, 2, "spruce", "mature", 100),
           Params(4000, 100, 1, "spruce", "mature", 50),
           Params(8000, 160, 0, "oak", "mature", 50),
           Params(8000, 160, 2, "oak", "mature", 100) }

\* The first call of generateTree on a new generator object.
CallFirst ==
    \E params \in TreePool :
        /\ made = 0
        /\ generator' = generateTree(generator, params)
        /\ returned' = [called |-> TRUE, params |-> params,
                        segments |-> generator'.segments,
                        depths |-> generator'.depths,
                        crownEnvelope |-> generator'.crownEnvelope]
        /\ log' = <<params>>
        /\ made' = 1
        /\ UNCHANGED firstOf

----------------------------------------------------------------------------
(* The host: the Tree component (the version that drives                   *)
(* RealisticTreeGenerator) and the store fields it reads.  It posts INIT   *)
(* when it mounts; a change of a store field the generation effect depends *)
(* on re-runs the effect, which clears the pending timer and starts a new  *)
(* one unless a generation is under way or the worker is not ready.        *)

\* The branches Tree sends: what generateTree returned, never empty (the
\* trunk is always there), and no foliage.
TreePayloads ==
    { [branches |-> <<GoodBranch>>, foliage |-> <<>>],
      [branches |-> <<GoodBranch, SlantBranch>>, foliage |-> <<>>] }

\* (mutant) the effect does not wait for the worker.
GenerationEffect_NotReady(generating, ready) == ~generating

\* The generation effect, run with the values of the render: is a timer
\* pending afterwards?
GenerationEffect(generating, ready) == ~generating /\ ready

HostStart ==
    /\ isGenerating = FALSE
    /\ workerReady = FALSE
    /\ triggerGeneration = 0
    /\ timer = FALSE
    /\ geometry = 0
    /\ unanswered = {}

\* A control changes a store field among the effect's dependencies.
HostSettingsChange ==
    /\ timer' = GenerationEffect(isGenerating, workerReady)
    /\ UNCHANGED <<isGenerating, workerReady, triggerGeneration, geometry, unanswered>>
    /\ UNCHANGED wvars

\* handleGenerateEvent: generate() of the store.
HostGenerateClick ==
    /\ triggerGeneration < MaxTrigger
    /\ triggerGeneration' = triggerGeneration + 1
    /\ timer' = GenerationEffect(isGenerating, workerReady)
    /\ UNCHANGED <<isGenerating, workerReady, geometry, unanswered>>
    /\ UNCHANGED wvars

\* handleExportEvent: the request carries no payload.
HostExportClick ==
    /\ sent < MaxRequests
    /\ inbox' = Append(inbox, Request("EXPORT_STL", sent + 1, NoPayload))
    /\ sent' = sent + 1
    /\ UNCHANGED hvars
    /\ UNCHANGED <<manifold, initPending, currentSolid, kernel, outbox, last, okGen,
                   initFailed, initOk, exported>>

\* The timer of the generation effect fires.
HostTimerFire ==
    /\ timer
    /\ sent < MaxRequests
    /\ timer' = FALSE
    /\ isGenerating' = TRUE
    /\ \E p \in TreePayloads :
         inbox' = Append(inbox, Request("GENERATE_TREE", sent + 1, p))
    /\ sent' = sent + 1
    /\ unanswered' = unanswered \cup {sent + 1}
    /\ UNCHANGED <<workerReady, triggerGeneration, geometry>>
    /\ UNCHANGED <<manifold, initPending, currentSolid, kernel, outbox, last, okGen,
                   initFailed, initOk, exported>>

\* handleMessage on TREE_READY.
OnTreeReady(m) ==
    /\ geometry' = m.re
    /\ isGenerating' = FALSE
    /\ unanswered' = unanswered \ {m.re}
    /\ UNCHANGED <<workerReady, triggerGeneration, timer>>

\* handleMessage on READY: setWorkerReady(true), generate(); both are among
\* the effect's dependencies.
OnReady(m) ==
    /\ workerReady' = TRUE
    /\ triggerGeneration' = triggerGeneration + 1
    /\ timer' = GenerationEffect(isGenerating, TRUE)
    /\ UNCHANGED <<isGenerating, geometry, unanswered>>

\* handleMessage on STL_READY: the download, no state of Tree changes.
OnStlReady(m) == UNCHANGED hvars

\* (mutant) an ERROR leaves the generating flag as it is.
OnError_StillGenerating(m) ==
    /\ unanswered' = unanswered \ {m.re}
    /\ UNCHANGED <<isGenerating, workerReady, triggerGeneration, timer, geometry>>

\* handleMessage on ERROR, whatever request it answers.
OnError(m) ==
    /\ isGenerating' = FALSE
    /\ unanswered' = unanswered \ {m.re}
    /\ UNCHANGED <<workerReady, triggerGeneration, timer, geometry>>

HostRecv ==
    /\ outbox # <<>>
    /\ outbox' = Tail(outbox)
    /\ CASE Head(outbox).type = "TREE_READY" -> OnTreeReady(Head(outbox))
         [] Head(outbox).type = "READY" -> OnReady(Head(outbox))
         [] Head(outbox).type = "STL_READY" -> OnStlReady(Head(outbox))
         [] Head(outbox).type = "ERROR" -> OnError(Head(outbox))
    /\ UNCHANGED <<manifold, initPending, currentSolid, kernel, inbox, sent, last,
                   okGen, initFailed, initOk, exported>>

\* The mount effect has run: INIT is on its way to the worker.
HostMounted == inbox = <<Request("INIT", 1, NoPayload)>> /\ sent = 1

\* Calls with names of both tables, names of neither and names every
\* object inherits.
SpeciesNames == {"linden", "oak", "palm", "", "constructor", "__proto__"}

AgeNames == {"mature", "young", "ancient", "toString"}

NamePool ==
    { Params(treeHeight, 400, seed, preset, age, 100) :
        treeHeight \in {6000, 8000}, seed \in {1, 2},
        preset \in SpeciesNames, age \in AgeNames }

CallNamed ==
    \E params \in NamePool :
        /\ made = 0
        /\ generator' = generateTree(generator, params)
        /\ returned' = [called |-> TRUE, params |-> params, segments |-> generator'.segments,
                        depths |-> generator'.depths, crownEnvelope |-> generator'.crownEnvelope]
        /\ log' = <<params>>
        /\ made' = 1
        /\ UNCHANGED firstOf

----------------------------------------------------------------------------
(* binaryUnion called on its own.  The solids passed are the handles 1..n  *)
(* in some order; every solid occupies a set of points of space.           *)

MaxSolids == 4

MaxFailAt == 2

\* The orders in which n solids can be passed.
Orders(n) == { s \in [1..n -> 1..n] : \A i, j \in 1..n : s[i] = s[j] => i = j }

\* The points the solids occupy: disjoint, overlapping in a ring, or equal in pairs.
PointSets ==
    { [i \in 1..MaxSolids |-> {i}],
      [i \in 1..MaxSolids |-> {i, (i % MaxSolids) + 1}],
      [i \in 1..MaxSolids |-> {(i + 1) \div 2}] }

\* The kernel after n primitives have been constructed.
KernelOf(n) == Run([next |-> n + 1, released |-> {}, mesh |-> <<>>])

NotUnited == [called |-> FALSE]

UnionStart == unionIn = [solids |-> <<>>, points |-> <<>>] /\ unionOut = NotUnited

UnionInit ==
    /\ \E n \in 0..MaxSolids : \E s \in Orders(n) : \E pts \in PointSets :
           unionIn = [solids |-> s, points |-> pts]
    /\ unionOut = NotUnited

\* What a call of binaryUnion leaves: its value, whether it threw, and
\* the unions and releases the kernel has seen.
United(r, failAt) ==
    [called |-> TRUE, failAt |-> failAt, res |-> r.res, threw |-> r.threw,
     calls |-> r.k.calls, released |-> r.k.released, log |-> r.k.log]

CallBinaryUnion ==
    /\ ~unionOut.called
    /\ \E failAt \in 0..MaxFailAt :
           unionOut' = United(binaryUnion(KernelOf(Len(unionIn.solids)),
                                          unionIn.solids, failAt), failAt)
    /\ UNCHANGED unionIn

----------------------------------------------------------------------------
(* Botanist.generateString.  A string is the sequence of its characters.   *)

MaxDepth == 2

MaxBranching == 3

MaxAxiom == 2

Symbols == {"F", "+", "["}

Axioms == UNION { [1..n -> Symbols] : n \in 0..MaxAxiom }

AngleSign_AlwaysPlus(i) == "+"

\* const angleSign = i % 2 === 0 ? '+' : '-'
AngleSign(i) == IF i % 2 = 0 THEN "+" ELSE "-"

\* branchStr after the first n turns of its loop
RECURSIVE branchStr(_)
branchStr(n) ==
    IF n = 0 THEN <<>>
    ELSE branchStr(n - 1) \o <<"[", AngleSign(n - 1), "F", "]">>

\* const rule = 'FF' + branchStr
Rule(branchingFactor) == <<"F", "F">> \o branchStr(branchingFactor)

Piece_BracketToo(char, rule) ==
    IF char = "F" \/ char = "[" THEN rule ELSE <<char>>

\* What one character adds to `next`.
Piece(char, rule) == IF char = "F" THEN rule ELSE <<char>>

\* `next` after the characters lo..hi of `current`: the pieces in order.
RECURSIVE Rewritten(_, _, _, _)
Rewritten(current, rule, lo, hi) ==
    IF lo > hi THEN <<>>
    ELSE IF lo = hi THEN Piece(current[lo], rule)
    ELSE Rewritten(current, rule, lo, (lo + hi) \div 2)
         \o Rewritten(current, rule, (lo + hi) \div 2 + 1, hi)

\* `current` after `depth` turns of the outer loop.
RECURSIVE Expanded(_, _, _)
Expanded(axiom, rule, depth) ==
    IF depth = 0 THEN axiom
    ELSE Call(LAMBDA current : Rewritten(current, rule, 1, Len(current)),
              Expanded(axiom, rule, depth - 1))

generateString(axiom, depth, branchingFactor) ==
    Expanded(axiom, Rule(branchingFactor), depth)

NoString == [called |-> FALSE]

StringStart ==
    /\ stringIn = [axiom |-> <<>>, depth |-> 0, branchingFactor |-> 0]
    /\ stringOut = NoString

StringInit ==
    /\ \E axiom \in Axioms : \E depth \in 0..MaxDepth : \E branchingFactor \in 0..MaxBranching :
           stringIn = [axiom |-> axiom, depth |-> depth, branchingFactor |-> branchingFactor]
    /\ stringOut = NoString

CallGenerateString ==
    /\ ~stringOut.called
    /\ stringOut' = [called |-> TRUE,
                     string |-> generateString(stringIn.axiom, stringIn.depth,
                                               stringIn.branchingFactor)]
    /\ UNCHANGED stringIn

----------------------------------------------------------------------------
(* Botanist.interpret (realisticTree.ts:1029-1132), the turtle.  The loop  *)
(* over the characters of the string is followed one character per step.   *)
(* A Quaternion is an object: multiply and slerp change the object that    *)
(* currentQuat refers to, clone makes a new one.  `quats` is the heap of   *)
(* the quaternions of the call and currentQuat an index of it; a Vector3   *)
(* is never changed after currentPos or a stack entry refers to it, and is *)
(* held by value.  A quaternion is <<x, y, z, w>> in thousandths.          *)

\* The characters of a string: the nine of the switch and one it ignores.
Chars == {"F", "+", "-", "&", "^", "\\", "/", "[", "]", "X"}

\* Quaternion.setFromAxisAngle(axis, angle)
setFromAxisAngle(axis, angle) ==
    << Mul(axis[1], Sin(angle \div 2)), Mul(axis[2], Sin(angle \div 2)),
       Mul(axis[3], Sin(angle \div 2)), Cos(angle \div 2) >>

\* Quaternion.multiplyQuaternions(a, b)
multiplyQuaternions(a, b) ==
    << Mul(a[1], b[4]) + Mul(a[4], b[1]) + Mul(a[2], b[3]) - Mul(a[3], b[2]),
       Mul(a[2], b[4]) + Mul(a[4], b[2]) + Mul(a[3], b[1]) - Mul(a[1], b[3]),
       Mul(a[3], b[4]) + Mul(a[4], b[3]) + Mul(a[1], b[2]) - Mul(a[2], b[1]),
       Mul(a[4], b[4]) - Mul(a[1], b[1]) - Mul(a[2], b[2]) - Mul(a[3], b[3]) >>

QDot(a, b) == Mul(a[1], b[1]) + Mul(a[2], b[2]) + Mul(a[3], b[3]) + Mul(a[4], b[4])

QLength(q) == Isqrt(q[1] * q[1] + q[2] * q[2] + q[3] * q[3] + q[4] * q[4])

QOver(q, len) ==
    IF len = 0 THEN <<0, 0, 0, Scale>>
    ELSE << Div(q[1], len), Div(q[2], len), Div(q[3], len), Div(q[4], len) >>

\* Quaternion.normalize()
QNormalize(q) == Call(LAMBDA len : QOver(q, len), QLength(q))

QVec(q) == << q[1], q[2], q[3] >>

Twice(v) == << 2 * v[1], 2 * v[2], 2 * v[3] >>

Twisted(v, q, t) == VAdd(VAdd(v, VScale(t, q[4])), CrossVectors(QVec(q), t))

\* Vector3.applyQuaternion(q): v + w * t + q.xyz x t, t = 2 * (q.xyz x v)
applyQuaternion(v, q) ==
    Call(LAMBDA t : Twisted(v, q, t), Twice(CrossVectors(QVec(q), v)))

VDot(a, b) == Mul(a[1], b[1]) + Mul(a[2], b[2]) + Mul(a[3], b[3])

\* Quaternion.setFromUnitVectors(vFrom, vTo)
setFromUnitVectors(vFrom, vTo) ==
    IF VDot(vFrom, vTo) + Scale <= 0
    THEN QNormalize(IF Abs(vFrom[1]) > Abs(vFrom[3])
                    THEN << -vFrom[2], vFrom[1], 0, 0 >>
                    ELSE << 0, -vFrom[3], vFrom[2], 0 >>)
    ELSE QNormalize(CrossVectors(vFrom, vTo) \o << VDot(vFrom, vTo) + Scale >>)

QSum(a, b, sign) ==
    << a[1] + sign * b[1], a[2] + sign * b[2], a[3] + sign * b[3], a[4] + sign * b[4] >>

\* Quaternion.slerp(qb, 0.5): qb is negated if the dot product is negative;
\* the quaternion is unchanged if the two coincide; else both weights are
\* sin(theta / 2) / sin(theta), which makes the result the normalized sum.
SlerpHalf(qa, qb) ==
    IF Abs(QDot(qa, qb)) >= Scale THEN qa
    ELSE QNormalize(QSum(qa, qb, IF QDot(qa, qb) < 0 THEN -1 ELSE 1))

RECURSIVE Pow(_, _)
Pow(r, n) == IF n = 0 THEN 1 ELSE r * Pow(r, n - 1)

\* Math.pow(0.5, 1 / thicknessDecay) for thicknessDecay 1, 2: the root of
\* one half, rounded down.
HalfRoot ==
    [n \in 1..2 |-> CHOOSE r \in 0..Scale :
                        /\ Pow(r, n) <= Pow(Scale, n) \div 2
                        /\ Pow(r + 1, n) > Pow(Scale, n) \div 2]

\* (Math.PI / 180) * 25
TurnAngle == (Pi * 25) \div 180

AxisUp == <<0, Scale, 0>>

AxisRight == <<Scale, 0, 0>>

AxisForward == <<0, 0, Scale>>

\* The axis and the angle of a rotation character.
TurnOf(char) ==
    CASE char = "+" -> setFromAxisAngle(AxisRight, TurnAngle)
      [] char = "-" -> setFromAxisAngle(AxisRight, -TurnAngle)
      [] char = "&" -> setFromAxisAngle(AxisForward, TurnAngle)
      [] char = "^" -> setFromAxisAngle(AxisForward, -TurnAngle)
      [] char = "\\" -> setFromAxisAngle(AxisUp, TurnAngle)
      [] char = "/" -> setFromAxisAngle(AxisUp, -TurnAngle)

NotInterpreting == [running |-> FALSE, returned |-> FALSE]

\* The locals of interpret before the loop.  `read` is history: the
\* characters read so far; `opened` is history: for every entry of
\* stateStack, the position, the value of the orientation, the radius, the
\* step length and the branches at the '[' that pushed it.
Entered(args) ==
    [running |-> TRUE, returned |-> FALSE, args |-> args,
     branches |-> <<>>, stateStack |-> <<>>,
     currentPos |-> <<0, 0, 0>>,
     quats |-> << setFromAxisAngle(AxisUp, 0) >>, currentQuat |-> 1,
     currentRadius |-> args.initialRadius, currentLength |-> Scale,
     read |-> <<>>, opened |-> <<>>]

\* The value of the quaternion currentQuat refers to.
Orientation(t) == t.quats[t.currentQuat]

\* What the turtle holds: position, orientation, radius and step length.
Held(t) ==
    [pos |-> t.currentPos, quat |-> Orientation(t),
     radius |-> t.currentRadius, length |-> t.currentLength]

\* step.add(gravEffect).normalize().multiplyScalar(currentLength)
Bent(step, gravitropism, currentLength) ==
    VScale(Normalize(VAdd(step, <<0, gravitropism, 0>>)), currentLength)

\* The step of an 'F': along the orientation, bent if gravitropism !== 0.
StepOf(t) ==
    IF t.args.gravitropism # 0
    THEN Bent(applyQuaternion(<<0, t.currentLength, 0>>, Orientation(t)),
              t.args.gravitropism, t.currentLength)
    ELSE applyQuaternion(<<0, t.currentLength, 0>>, Orientation(t))

\* currentQuat.slerp(targetQuat, 0.5), on the object currentQuat refers to
Drooped(t, step) ==
    IF t.args.gravitropism # 0
    THEN [t EXCEPT !.quats[t.currentQuat] =
              SlerpHalf(@, setFromUnitVectors(AxisUp, Normalize(step)))]
    ELSE t

\* Math.max(radius, minPrintableRadius / targetScale)
Printable(t, radius) == Max(radius, Div(t.args.minPrintableRadius, t.args.targetScale))

Advanced(t, step, nextRadius) ==
    [t EXCEPT !.branches = Append(@, BranchSegment(t.currentPos, VAdd(t.currentPos, step),
                                                   Printable(t, t.currentRadius),
                                                   Printable(t, nextRadius))),
              !.currentPos = VAdd(t.currentPos, step),
              !.currentRadius = nextRadius,
              !.currentLength = Mul(@, t.args.lengthDecay)]

\* case 'F'
Forward(t) ==
    Call(LAMBDA step : Advanced(Drooped(t, step), step,
                                Mul(t.currentRadius, HalfRoot[t.args.thicknessDecay])),
         StepOf(t))

\* case '+', '-', '&', '^', '\\', '/': currentQuat.multiply(...), in place
Turned(t, char) ==
    [t EXCEPT !.quats[t.currentQuat] = multiplyQuaternions(@, TurnOf(char))]

\* (mutant) the stack entry refers to the quaternion of the turtle.
Opened_QuatShared(t) ==
    [t EXCEPT !.stateStack = Append(@, [pos |-> t.currentPos, quat |-> t.currentQuat,
                                        radius |-> t.currentRadius,
                                        length |-> t.currentLength]),
              !.opened = Append(@, [held |-> Held(t), branches |-> t.branches])]

\* case '[': the entry holds clones of the position and of the orientation
Opened(t) ==
    [t EXCEPT !.quats = Append(@, Orientation(t)),
              !.stateStack = Append(@, [pos |-> t.currentPos, quat |-> Len(t.quats) + 1,
                                        radius |-> t.currentRadius,
                                        length |-> t.currentLength]),
              !.opened = Append(@, [held |-> Held(t), branches |-> t.branches])]

Front(s) == SubSeq(s, 1, Len(s) - 1)

\* (mutant) a ']' on the empty stack takes the turtle back to the origin.
Closed_EmptyResets(t) ==
    IF t.stateStack = <<>>
    THEN [t EXCEPT !.currentPos = <<0, 0, 0>>, !.currentRadius = t.args.initialRadius,
                   !.currentLength = Scale]
    ELSE [t EXCEPT !.stateStack = Front(@), !.opened = Front(@),
                   !.currentPos = t.stateStack[Len(t.stateStack)].pos,
                   !.currentQuat = t.stateStack[Len(t.stateStack)].quat,
                   !.currentRadius = t.stateStack[Len(t.stateStack)].radius,
                   !.currentLength = t.stateStack[Len(t.stateStack)].length]

\* case ']': const state = stateStack.pop(); if (state) { ... }
Closed(t) ==
    IF t.stateStack = <<>> THEN t
    ELSE [t EXCEPT !.stateStack = Front(@), !.opened = Front(@),
                   !.currentPos = t.stateStack[Len(t.stateStack)].pos,
                   !.currentQuat = t.stateStack[Len(t.stateStack)].quat,
                   !.currentRadius = t.stateStack[Len(t.stateStack)].radius,
                   !.currentLength = t.stateStack[Len(t.stateStack)].length]

\* The body of the loop for one character.
Interpreted(t, char) ==
    CASE char = "F" -> Forward(t)
      [] char \in {"+", "-", "&", "^", "\\", "/"} -> Turned(t, char)
      [] char = "[" -> Opened(t)
      [] char = "]" -> Closed(t)
      [] OTHER -> t

\* The arguments of a call: the store's defaults for lengthDecay,
\* targetScale and gravitropism, and a call without gravitropism.
TurtleArgs ==
    { [initialRadius |-> 2000, thicknessDecay |-> 2, lengthDecay |-> 800,
       minPrintableRadius |-> 400, targetScale |-> Scale, gravitropism |-> gravitropism] :
        gravitropism \in {0, 100} }

TurtleStart == turtle = NotInterpreting

\* botanist.interpret(str, ...) is entered
CallInterpret ==
    /\ ~turtle.running
    /\ ~turtle.returned
    /\ \E args \in TurtleArgs : turtle' = Entered(args)

\* one turn of `for (const char of str)`
ReadChar ==
    /\ turtle.running
    /\ Len(turtle.read) < MaxString
    /\ \E char \in Chars :
           turtle' = [Interpreted(turtle, char) EXCEPT !.read = Append(turtle.read, char)]

\* return branches
ReturnBranches ==
    /\ turtle.running
    /\ turtle' = [turtle EXCEPT !.running = FALSE, !.returned = TRUE]

----------------------------------------------------------------------------
(* ConnectedTreeGenerator (connectedTree.ts).  Numbers are thousandths and *)
(* random() is that of the branch generator.  The loop of                  *)
(* generateConnectedCrown is followed one turn per step.  `kinds` is       *)
(* history: for each segment, what pushed it.                              *)

NewConnected ==
    [phase |-> "new", segments |-> <<>>, seed |-> 42, branchEnds |-> <<>>, kinds |-> <<>>]

\* Math.floor(20 + density * 60)
TotalBranches(density) == (20 * Scale + density * 60) \div Scale

\* generateTree up to the call of generateConnectedCrown: the trunk.
Trunked(params) ==
    [phase |-> "growing", params |-> params, i |-> 0,
     totalBranches |-> TotalBranches(params.crownDensity),
     seed |-> params.seed,
     segments |-> << BranchSegment(<<0, 0, 0>>, <<0, params.trunkHeight, 0>>,
                                   Max(params.trunkRadius, params.branchThickness * 2),
                                   Max(Mul(params.trunkRadius, 700),
                                       Mul(params.branchThickness, 1500))) >>,
     branchEnds |-> << <<0, params.trunkHeight, 0>> >>,
     kinds |-> <<"trunk">>]

\* this.branchEnds[Math.floor(this.random() * this.branchEnds.length)]
ParentPoint(branchEnds, seed) == branchEnds[((Random(seed) * Len(branchEnds)) \div Scale) + 1]

\* new Vector3(dx, dy, dz).normalize()
GrowDir(angle, upwardBias) ==
    Normalize(<< Mul(Cos(angle), Scale - upwardBias), upwardBias,
                 Mul(Sin(angle), Scale - upwardBias) >>)

\* i / totalBranches
Progress(c) == Div(c.i, c.totalBranches)

\* baseLength * this.randomRange(0.3, 1.0) * (1 - progress * 0.5)
GrowLength(c, seed) ==
    Mul(Mul(Mul(c.params.crownRadius, 300), RandomRange(seed, 300, 1000)),
        Scale - Mul(Progress(c), 500))

\* The end point of the branch of this turn, jitter added; q are the seeds
\* the calls of random() of the turn leave.
GrowEnd(c, q) ==
    VAdd(VAdd(ParentPoint(c.branchEnds, q[1]),
              VScale(GrowDir(RandomRange(q[2], 0, 2 * Pi), RandomRange(q[3], 200, 800)),
                     GrowLength(c, q[4]))),
         << RandomRange(q[5], -200, 200), RandomRange(q[6], -100, 300),
            RandomRange(q[7], -200, 200) >>)

\* thickness * (1 - progress * 0.3)
GrowThickness(c) == Mul(c.params.branchThickness, Scale - Mul(Progress(c), 300))

\* The branch is pushed and its end point becomes a branch end.
Branched(c, q, endPoint) ==
    [c EXCEPT !.segments = Append(@, BranchSegment(ParentPoint(c.branchEnds, q[1]), endPoint,
                                                   GrowThickness(c),
                                                   Mul(GrowThickness(c), 900))),
              !.kinds = Append(@, "branch"),
              !.branchEnds = Append(@, endPoint),
              !.seed = q[8]]

DistanceTo(a, b) == VLength(Sub(a, b))

\* (mutant) the ends within 0.1 are kept, the end the loop starts from too.
Nearby_TooClose(branchEnds, from) ==
    SelectSeq(branchEnds, LAMBDA end : DistanceTo(from, end) <= 100)

\* this.branchEnds.filter(end => dist > 0.1 && dist < maxDistance)
Nearby(branchEnds, from) ==
    SelectSeq(branchEnds,
              LAMBDA end : DistanceTo(from, end) > 100 /\ DistanceTo(from, end) < 2000)

Looped(c, from, thickness, nearby, seed) ==
    [c EXCEPT !.seed = seed,
              !.segments = Append(@, BranchSegment(from,
                                                   nearby[((Random(seed) * Len(nearby))
                                                           \div Scale) + 1],
                                                   thickness, thickness)),
              !.kinds = Append(@, "loop")]

tryCreateLoop(c, from, thickness) ==
    Call(LAMBDA nearby : IF Len(nearby) = 0 THEN c
                         ELSE Looped(c, from, thickness, nearby, NextSeed(c.seed)),
         Nearby(c.branchEnds, from))

\* if (this.random() < 0.15 && i > 10) this.tryCreateLoop(endPoint, thickness * 0.8)
MaybeLooped(c, endPoint) ==
    IF Random(c.seed) < 150 /\ c.i > 10
    THEN tryCreateLoop(c, endPoint, Mul(c.params.branchThickness, 800))
    ELSE c

GrownTurn(c, q) ==
    Call(LAMBDA endPoint : MaybeLooped(Branched(c, q, endPoint), endPoint), GrowEnd(c, q))

\* One turn of the loop of generateConnectedCrown.
Turn(c) ==
    Call(LAMBDA d : [d EXCEPT !.i = @ + 1],
         Call(LAMBDA q : GrownTurn(c, q), Seeds(c.seed, 8)))

\* Parameter objects of a call.
ConnectedPool ==
    { [trunkRadius |-> 500, trunkHeight |-> 5000, crownRadius |-> crownRadius,
       crownHeight |-> 4000, branchThickness |-> 200, crownDensity |-> crownDensity,
       seed |-> seed] :
        crownRadius \in {3000, 5000}, crownDensity \in {100, 500}, seed \in {42, 7} }

ConnectedStart == connected = NewConnected

\* generator.generateTree(params), to the first turn of the crown loop
CallConnected ==
    /\ connected.phase = "new"
    /\ \E params \in ConnectedPool : connected' = Trunked(params)

\* for (let i = 0; i < totalBranches; i++) { ... }
GrowBranch ==
    /\ connected.phase = "growing"
    /\ connected.i < connected.totalBranches
    /\ connected' = Turn(connected)

\* return this.segments
ReturnConnected ==
    /\ connected.phase = "growing"
    /\ connected.i >= connected.totalBranches
    /\ connected' = [connected EXCEPT !.phase = "returned"]

----------------------------------------------------------------------------
(* FoliageGenerator (foliage.ts).  Lengths, ratios and angles are numbers  *)
(* of thousandths, as in the branch generator; random() is the same.       *)

MaxGenerate == 2

\* new FoliageGenerator(seed), seed = 42 by default
FoliageGenerator(seed) == [seed |-> seed]

\* A loop of a strategy carries the seed and the clusters pushed so far.
Sphere(position, radius) == [position |-> position, radius |-> radius, type |-> "sphere"]

Cone(position, radius, height, topRadius) ==
    [position |-> position, radius |-> radius, type |-> "cone",
     height |-> height, topRadius |-> topRadius]

Push(st, seed, cluster) == [seed |-> seed, clusters |-> Append(st.clusters, cluster)]

CrownStart(treeHeight, style) == Mul(treeHeight, style.crownBaseHeight)

MaxWidth(treeHeight, style) == Mul(treeHeight, style.crownWidthRatio)

\* What a strategy returns, with the generator it leaves.
Foliage(st, min, max) ==
    [f |-> [seed |-> st.seed], clusters |-> st.clusters,
     boundingBox |-> [min |-> min, max |-> max]]

\* generateConical: secondary cone j of a layer; q are the seeds its three
\* calls of random() leave (angle, size, height).
SecondaryDrawn(q, st, j, numSecondary, layerY, layerWidth, layerHeight) ==
    Push(st, q[3],
         Sphere(<< Mul(Cos(TDiv(j * 2 * Pi, numSecondary) + RandomRange(q[1], -200, 200)),
                       Mul(layerWidth, 300)),
                   layerY + Mul(RandomRange(q[3], -500, 500), layerHeight),
                   Mul(Sin(TDiv(j * 2 * Pi, numSecondary) + RandomRange(q[1], -200, 200)),
                       Mul(layerWidth, 300)) >>,
                Mul(Mul(layerWidth, 300), RandomRange(q[2], 700, 1300))))

\* The layer after its first j secondary cones.
RECURSIVE Secondaries(_, _, _, _, _, _)
Secondaries(st, j, numSecondary, layerY, layerWidth, layerHeight) ==
    IF j = 0 THEN st
    ELSE Call(LAMBDA done :
                 Call(LAMBDA q : SecondaryDrawn(q, done, j - 1, numSecondary, layerY,
                                                layerWidth, layerHeight),
                      Seeds(done.seed, 3)),
              Secondaries(st, j - 1, numSecondary, layerY, layerWidth, layerHeight))

ConeLayer(st, style, layerY, layerWidth, layerHeight) ==
    Secondaries(Push(st, st.seed,
                     Cone(<<0, layerY, 0>>, layerWidth, Mul(layerHeight, 1500),
                          Mul(layerWidth, 100))),
                IF style.crownDensity > 500 THEN (4 * style.crownDensity) \div Scale ELSE 0,
                IF style.crownDensity > 500 THEN (4 * style.crownDensity) \div Scale ELSE 0,
                layerY, layerWidth, layerHeight)

\* The crown after its first i layers.
RECURSIVE ConeLayers(_, _, _, _, _, _, _)
ConeLayers(st, style, i, numLayers, crownStart, layerHeight, maxWidth) ==
    IF i = 0 THEN st
    ELSE Call(LAMBDA done :
                 ConeLayer(done, style,
                           crownStart + (i - 1) * layerHeight + Mul(layerHeight, 500),
                           Mul(maxWidth, Scale - Mul(TDiv((i - 1) * Scale, numLayers), 900)),
                           layerHeight),
              ConeLayers(st, style, i - 1, numLayers, crownStart, layerHeight, maxWidth))

ConicalOf(seed, treeHeight, style, crownStart, maxWidth, numLayers) ==
    Foliage(ConeLayers([seed |-> seed, clusters |-> <<>>], style, numLayers, numLayers,
                       crownStart, TDiv(treeHeight - crownStart, numLayers), maxWidth),
            <<-maxWidth, crownStart, -maxWidth>>, <<maxWidth, treeHeight, maxWidth>>)

generateConical(f, treeHeight, style) ==
    ConicalOf(f.seed, treeHeight, style, CrownStart(treeHeight, style),
              MaxWidth(treeHeight, style), Max(3, (8 * style.crownDensity) \div Scale))

\* generateSpherical: sphere i; cos(inclination) is 1 - 2t and
\* sin(inclination) the root of 1 - cos^2; q are the seeds the two calls of
\* random() leave (azimuth, size).
SphereAt(q, st, style, i, crownStart, crownCenterY, cosI, radius) ==
    IF crownCenterY + Mul(Mul(cosI, radius), 700) >= crownStart
    THEN Push(st, q[2],
              Sphere(<< Mul(Mul(Isqrt(Scale * Scale - cosI * cosI),
                                Cos(GoldenAngle * i + RandomRange(q[1], -100, 100))), radius),
                        crownCenterY + Mul(Mul(cosI, radius), 700),
                        Mul(Mul(Isqrt(Scale * Scale - cosI * cosI),
                                Sin(GoldenAngle * i + RandomRange(q[1], -100, 100))), radius) >>,
                     Mul(style.foliageElementSize, RandomRange(q[2], 600, 1000))))
    ELSE [st EXCEPT !.seed = q[2]]

\* The crown after the first i turns of the loop.
RECURSIVE Spheres(_, _, _, _, _, _, _)
Spheres(st, style, i, numSpheres, crownStart, crownCenterY, mainRadius) ==
    IF i = 0 THEN st
    ELSE Call(LAMBDA done :
                 Call(LAMBDA q : SphereAt(q, done, style, i - 1, crownStart, crownCenterY,
                                          Scale - 2 * TDiv((i - 1) * Scale, numSpheres),
                                          Mul(mainRadius,
                                              800 + Mul(TDiv((i - 1) * Scale, numSpheres), 400))),
                      Seeds(done.seed, 2)),
              Spheres(st, style, i - 1, numSpheres, crownStart, crownCenterY, mainRadius))

SphericalOf(seed, treeHeight, style, crownStart, crownHeight, maxWidth) ==
    Foliage(Spheres([seed |-> seed,
                     clusters |-> << Sphere(<<0, crownStart + Mul(crownHeight, 500), 0>>,
                                            Mul(Min(crownHeight, maxWidth), 400)) >>],
                    style, (12 * style.crownDensity) \div Scale,
                    (12 * style.crownDensity) \div Scale, crownStart,
                    crownStart + Mul(crownHeight, 500), Mul(Min(crownHeight, maxWidth), 400)),
            <<-maxWidth, crownStart, -maxWidth>>, <<maxWidth, treeHeight, maxWidth>>)

generateSpherical(f, treeHeight, style) ==
    SphericalOf(f.seed, treeHeight, style, CrownStart(treeHeight, style),
                treeHeight - CrownStart(treeHeight, style), MaxWidth(treeHeight, style))

\* generateColumnar: offset sphere j of a layer; q are the seeds the two
\* calls of random() leave (angle, height).
OffsetDrawn(q, st, style, j, y, layerWidth, layerSpacing) ==
    Push(st, q[2],
         Sphere(<< Mul(Cos(TDiv(j * 2 * Pi, 3) + RandomRange(q[1], 0, 500)),
                       Mul(layerWidth, 200)),
                   y + Mul(RandomRange(q[2], -200, 200), layerSpacing),
                   Mul(Sin(TDiv(j * 2 * Pi, 3) + RandomRange(q[1], 0, 500)),
                       Mul(layerWidth, 200)) >>,
                Mul(Mul(layerWidth, 400), style.foliageElementSize)))

\* The layer after its first j offset spheres.
RECURSIVE Offsets(_, _, _, _, _, _)
Offsets(st, style, j, y, layerWidth, layerSpacing) ==
    IF j = 0 THEN st
    ELSE Call(LAMBDA done :
                 Call(LAMBDA q : OffsetDrawn(q, done, style, j - 1, y, layerWidth,
                                             layerSpacing),
                      Seeds(done.seed, 2)),
              Offsets(st, style, j - 1, y, layerWidth, layerSpacing))

\* taper = 1 - (|progress - 0.5| * 2)^2 * 0.3
Taper(progress) ==
    Scale - Mul(Mul(Abs(progress - 500) * 2, Abs(progress - 500) * 2), 300)

ColumnLayer(st, style, y, layerWidth, layerSpacing) ==
    Offsets(Push(st, st.seed, Sphere(<<0, y, 0>>, Mul(layerWidth, style.foliageElementSize))),
            style, 3, y, layerWidth, layerSpacing)

\* The crown after its first i layers.
RECURSIVE ColumnLayers(_, _, _, _, _, _, _)
ColumnLayers(st, style, i, numLayers, crownStart, layerSpacing, width) ==
    IF i = 0 THEN st
    ELSE Call(LAMBDA done :
                 ColumnLayer(done, style,
                             crownStart + (i - 1) * layerSpacing + Mul(layerSpacing, 500),
                             Mul(width, Taper(TDiv((i - 1) * Scale, numLayers))),
                             layerSpacing),
              ColumnLayers(st, style, i - 1, numLayers, crownStart, layerSpacing, width))

ColumnarOf(seed, treeHeight, style, crownStart, width, numLayers) ==
    Foliage(ColumnLayers([seed |-> seed, clusters |-> <<>>], style, numLayers, numLayers,
                         crownStart, TDiv(treeHeight - crownStart, numLayers), width),
            <<-width, crownStart, -width>>, <<width, treeHeight, width>>)

generateColumnar(f, treeHeight, style) ==
    ColumnarOf(f.seed, treeHeight, style, CrownStart(treeHeight, style),
               MaxWidth(treeHeight, style), Max(4, (10 * style.crownDensity) \div Scale))

\* generateUmbrella: segment j of frond i; no call of random().
FrondSphere(style, i, j, numFronds, crownStart, maxWidth) ==
    Sphere(<< Mul(Cos(TDiv(i * 2 * Pi, numFronds)),
                  Mul(maxWidth, 300 + Mul(TDiv(j * Scale, 3), 700))),
              crownStart - 2 * Mul(TDiv(j * Scale, 3), TDiv(j * Scale, 3)),
              Mul(Sin(TDiv(i * 2 * Pi, numFronds)),
                  Mul(maxWidth, 300 + Mul(TDiv(j * Scale, 3), 700))) >>,
           Mul(style.foliageElementSize, Scale - Mul(TDiv(j * Scale, 3), 300)))

Fronds(style, numFronds, crownStart, maxWidth) ==
    [n \in 1..(3 * numFronds) |->
        FrondSphere(style, (n - 1) \div 3, (n - 1) % 3, numFronds, crownStart, maxWidth)]

UmbrellaOf(seed, style, crownStart, maxWidth, numFronds) ==
    Foliage([seed |-> seed,
             clusters |-> Append(Fronds(style, numFronds, crownStart, maxWidth),
                                 Sphere(<<0, crownStart + 500, 0>>,
                                        Mul(style.foliageElementSize, 1200)))],
            <<-maxWidth, crownStart - 3000, -maxWidth>>,
            <<maxWidth, crownStart + 1000, maxWidth>>)

generateUmbrella(f, treeHeight, style) ==
    UmbrellaOf(f.seed, style, CrownStart(treeHeight, style), MaxWidth(treeHeight, style),
               Max(6, (12 * style.crownDensity) \div Scale))

\* generateIrregular: the test of the do-while, on the point drawn.
Outside(x, y, z, crownStart, crownHeight, maxWidth) ==
    Mul(Div(x, maxWidth), Div(x, maxWidth))
    + Mul(Div(y - crownStart - Mul(crownHeight, 500), Mul(crownHeight, 500)),
          Div(y - crownStart - Mul(crownHeight, 500), Mul(crownHeight, 500)))
    + Mul(Div(z, maxWidth), Div(z, maxWidth)) > Scale

\* The point the three calls of random() of one attempt give.
PointDrawn(q, crownStart, crownHeight, maxWidth) ==
    << Mul(RandomRange(q[1], -Scale, Scale), maxWidth),
       crownStart + Mul(RandomRange(q[2], 0, Scale), crownHeight),
       Mul(RandomRange(q[3], -Scale, Scale), maxWidth) >>

\* (mutant) the loop goes on after the 20th attempt.
Tried_OneMore(point, q, attempts, drawn, crownStart, crownHeight, maxWidth) ==
    [seed |-> q[3], point |-> point, drawn |-> Append(drawn, point),
     again |-> Outside(point[1], point[2], point[3], crownStart, crownHeight, maxWidth)
               /\ attempts < 21]

\* One turn of the do-while, the attempts-th: the loop goes on if the
\* point is outside and attempts < 20.  `drawn` is history: the points
\* drawn for this sphere so far.
Tried(point, q, attempts, drawn, crownStart, crownHeight, maxWidth) ==
    [seed |-> q[3], point |-> point, drawn |-> Append(drawn, point),
     again |-> Outside(point[1], point[2], point[3], crownStart, crownHeight, maxWidth)
               /\ attempts < 20]

TriedWith(q, attempts, drawn, crownStart, crownHeight, maxWidth) ==
    Call(LAMBDA point : Tried(point, q, attempts, drawn, crownStart, crownHeight, maxWidth),
         PointDrawn(q, crownStart, crownHeight, maxWidth))

\* The do-while followed for at most `attempts` turns; the point of the
\* last turn made is kept.
RECURSIVE Attempted(_, _, _, _, _)
Attempted(seed, attempts, crownStart, crownHeight, maxWidth) ==
    IF attempts = 0
    THEN [seed |-> seed, point |-> <<0, 0, 0>>, drawn |-> <<>>, again |-> TRUE]
    ELSE Call(LAMBDA before :
                 IF before.again
                 THEN Call(LAMBDA q : TriedWith(q, attempts, before.drawn, crownStart,
                                                crownHeight, maxWidth),
                           Seeds(before.seed, 3))
                 ELSE before,
              Attempted(seed, attempts - 1, crownStart, crownHeight, maxWidth))

\* clusters.push(...); `tries` is history: per sphere, the points drawn
\* for it and whether the loop was still to go on when it was left.
Placed(st, style, at) ==
    [seed |-> NextSeed(at.seed),
     clusters |-> Append(st.clusters,
                         Sphere(at.point, Mul(style.foliageElementSize,
                                              RandomRange(NextSeed(at.seed), 500, 1200)))),
     tries |-> Append(st.tries, [drawn |-> at.drawn, again |-> at.again])]

\* The crown after its first i spheres.
RECURSIVE Scattered(_, _, _, _, _, _)
Scattered(st, style, i, crownStart, crownHeight, maxWidth) ==
    IF i = 0 THEN st
    ELSE Call(LAMBDA done :
                 Call(LAMBDA at : Placed(done, style, at),
                      Attempted(done.seed, MaxTurns, crownStart, crownHeight, maxWidth)),
              Scattered(st, style, i - 1, crownStart, crownHeight, maxWidth))

\* The result of generateIrregular, with the history of its loops.
FoliageTried(st, found) ==
    [f |-> found.f, clusters |-> found.clusters, boundingBox |-> found.boundingBox,
     tries |-> st.tries]

IrregularFrom(st, treeHeight, crownStart, maxWidth) ==
    FoliageTried(st, Foliage(st, <<-maxWidth, crownStart, -maxWidth>>,
                             <<maxWidth, treeHeight, maxWidth>>))

IrregularOf(seed, treeHeight, style, crownStart, maxWidth) ==
    Call(LAMBDA st : IrregularFrom(st, treeHeight, crownStart, maxWidth),
         Scattered([seed |-> seed, clusters |-> <<>>, tries |-> <<>>], style,
                   (20 * style.crownDensity) \div Scale, crownStart,
                   treeHeight - crownStart, maxWidth))

generateIrregular(f, treeHeight, style) ==
    IrregularOf(f.seed, treeHeight, style, CrownStart(treeHeight, style),
                MaxWidth(treeHeight, style))

\* if (params.seed !== undefined) this.seed = params.seed
Seeded(f, params) == IF "seed" \in DOMAIN params THEN [f EXCEPT !.seed = params.seed] ELSE f

Dispatched(f, treeHeight, style) ==
    CASE style.crownStyle = "conical" -> generateConical(f, treeHeight, style)
      [] style.crownStyle = "spherical" -> generateSpherical(f, treeHeight, style)
      [] style.crownStyle = "columnar" -> generateColumnar(f, treeHeight, style)
      [] style.crownStyle = "umbrella" -> generateUmbrella(f, treeHeight, style)
      [] style.crownStyle = "irregular" -> generateIrregular(f, treeHeight, style)
      [] OTHER -> generateSpherical(f, treeHeight, style)

\* generate(params): the generator it leaves, the clusters and the box.
generate(f, params) == Dispatched(Seeded(f, params), params.treeHeight, params.treeStyle)

\* The styles and parameter objects of the callers of the model.
TreeStyle(crownStyle, crownDensity) ==
    [crownStyle |-> crownStyle, crownBaseHeight |-> 300, crownWidthRatio |-> 250,
     crownDensity |-> crownDensity, foliageElementSize |-> 500]

CrownStyles == {"conical", "spherical", "columnar", "umbrella", "irregular", "weeping"}

FoliagePool ==
    { [treeHeight |-> 8000, treeStyle |-> TreeStyle(crownStyle, crownDensity)] :
        crownStyle \in CrownStyles, crownDensity \in {400, 600} }
    \cup { [treeHeight |-> 8000, treeStyle |-> TreeStyle(crownStyle, 600), seed |-> 7] :
              crownStyle \in CrownStyles }
    \cup { [treeHeight |-> 8000, treeStyle |-> TreeStyle("irregular", 600),
            seed |-> 14840773] }

FoliageStart == foliage = FoliageGenerator(42) /\ generated = <<>>

FoliageInit ==
    /\ \E seed \in {42, 7} : foliage = FoliageGenerator(seed)
    /\ generated = <<>>

\* The history of the do-while loops of a call, if it made any.
TriesOf(found) == IF "tries" \in DOMAIN found THEN found.tries ELSE <<>>

CallGenerate ==
    \E params \in FoliagePool :
        /\ Len(generated) < MaxGenerate
        /\ foliage' = generate(foliage, params).f
        /\ generated' = Append(generated, [params |-> params,
                                            clusters |-> generate(foliage, params).clusters,
                                            tries |-> TriesOf(generate(foliage, params))])

----------------------------------------------------------------------------
(* The specifications.                                                     *)

vars == <<wvars, svars, hvars, gvars, uvars, lvars, fvars, tvars, cvars>>

InitWorker == WorkerStart /\ ClientStart /\ StlStart /\ HostStart /\ GenStart /\ UnionStart /\ StringStart /\ FoliageStart /\ TurtleStart /\ ConnectedStart

NextWorker ==
    \/ WorkerInit /\ UNCHANGED <<svars, hvars, gvars, uvars, lvars, fvars, tvars, cvars>>
    \/ WorkerInitDone /\ UNCHANGED <<svars, hvars, gvars, uvars, lvars, fvars, tvars, cvars>>
    \/ WorkerGenerateDropped /\ UNCHANGED <<svars, hvars, gvars, uvars, lvars, fvars, tvars, cvars>>
    \/ WorkerGenerate /\ UNCHANGED <<svars, hvars, gvars, uvars, lvars, fvars, tvars, cvars>>
    \/ WorkerExport /\ UNCHANGED <<svars, hvars, gvars, uvars, lvars, fvars, tvars, cvars>>
    \/ ClientPost /\ UNCHANGED <<svars, hvars, gvars, uvars, lvars, fvars, tvars, cvars>>
    \/ ClientTake /\ UNCHANGED <<svars, hvars, gvars, uvars, lvars, fvars, tvars, cvars>>

SpecWorker == InitWorker /\ [][NextWorker]_vars

InitStl == StlInit /\ WorkerStart /\ ClientStart /\ HostStart /\ GenStart /\ UnionStart /\ StringStart /\ FoliageStart /\ TurtleStart /\ ConnectedStart

NextStl ==
    \/ CallMeshToSTL /\ UNCHANGED <<wvars, hvars, gvars, uvars, lvars, fvars, tvars, cvars>>
    \/ NextMesh /\ UNCHANGED <<wvars, hvars, gvars, uvars, lvars, fvars, tvars, cvars>>

SpecStl == InitStl /\ [][NextStl]_vars

\* Tree posts GENERATE_TREE only after READY, so the worker never drops one
\* here for want of a kernel handle.
InitSys == WorkerStart /\ HostMounted /\ HostStart /\ StlStart /\ GenStart /\ UnionStart /\ StringStart /\ FoliageStart /\ TurtleStart /\ ConnectedStart

NextSys ==
    \/ HostSettingsChange /\ UNCHANGED <<svars, gvars, uvars, lvars, fvars, tvars, cvars>>
    \/ HostGenerateClick /\ UNCHANGED <<svars, gvars, uvars, lvars, fvars, tvars, cvars>>
    \/ HostExportClick /\ UNCHANGED <<svars, gvars, uvars, lvars, fvars, tvars, cvars>>
    \/ HostTimerFire /\ UNCHANGED <<svars, gvars, uvars, lvars, fvars, tvars, cvars>>
    \/ HostRecv /\ UNCHANGED <<svars, gvars, uvars, lvars, fvars, tvars, cvars>>
    \/ WorkerInit /\ UNCHANGED <<svars, hvars, gvars, uvars, lvars, fvars, tvars, cvars>>
    \/ WorkerInitDone /\ UNCHANGED <<svars, hvars, gvars, uvars, lvars, fvars, tvars, cvars>>
    \/ WorkerGenerate /\ UNCHANGED <<svars, hvars, gvars, uvars, lvars, fvars, tvars, cvars>>
    \/ WorkerExport /\ UNCHANGED <<svars, hvars, gvars, uvars, lvars, fvars, tvars, cvars>>

SpecSys == InitSys /\ [][NextSys]_vars

\* A GENERATE_TREE request is next in the worker's queue and the kernel is
\* there: the guard of WorkerGenerate, which has a step to take whenever
\* the guard holds.
GenerateWaiting == inbox # <<>> /\ Head(inbox).type = "GENERATE_TREE" /\ manifold

\* The worker's event loop runs the handler on every message it is sent,
\* the kernel's initialization settles, and the host's listener is called
\* on every message the worker posts. The weak fairness of WorkerGenerate
\* is written out with GenerateWaiting for its enabling condition.
SpecSysLive ==
    /\ SpecSys
    /\ WF_vars(WorkerInit /\ UNCHANGED <<svars, hvars, gvars, uvars, lvars, fvars, tvars, cvars>>)
    /\ WF_vars(WorkerInitDone /\ UNCHANGED <<svars, hvars, gvars, uvars, lvars, fvars, tvars, cvars>>)
    /\ \/ []<>(~GenerateWaiting)
       \/ []<><<WorkerGenerate /\ UNCHANGED <<svars, hvars, gvars, uvars, lvars, fvars, tvars, cvars>>>>_vars
    /\ WF_vars(WorkerExport /\ UNCHANGED <<svars, hvars, gvars, uvars, lvars, fvars, tvars, cvars>>)
    /\ WF_vars(HostRecv /\ UNCHANGED <<svars, gvars, uvars, lvars, fvars, tvars, cvars>>)

\* The generator and its callers.
InitGen == GenStart /\ WorkerStart /\ ClientStart /\ StlStart /\ HostStart /\ UnionStart /\ StringStart /\ FoliageStart /\ TurtleStart /\ ConnectedStart

NextGen ==
    \/ CallGenerateTree /\ UNCHANGED <<wvars, svars, hvars, uvars, lvars, fvars, tvars, cvars>>
    \/ Construct /\ UNCHANGED <<wvars, svars, hvars, uvars, lvars, fvars, tvars, cvars>>

SpecGen == InitGen /\ [][NextGen]_vars

\* One call of the generator, over a wider choice of parameters.
NextTree ==
    \/ CallFirst /\ UNCHANGED <<wvars, svars, hvars, uvars, lvars, fvars, tvars, cvars>>
    \/ Construct /\ UNCHANGED <<wvars, svars, hvars, uvars, lvars, fvars, tvars, cvars>>

SpecTree == InitGen /\ [][NextTree]_vars

\* One call of the generator, over names the tables have and have not.
NextNames ==
    \/ CallNamed /\ UNCHANGED <<wvars, svars, hvars, uvars, lvars, fvars, tvars, cvars>>
    \/ Construct /\ UNCHANGED <<wvars, svars, hvars, uvars, lvars, fvars, tvars, cvars>>

SpecNames == InitGen /\ [][NextNames]_vars

InitUnion == UnionInit /\ WorkerStart /\ ClientStart /\ StlStart /\ HostStart /\ GenStart /\ StringStart /\ FoliageStart /\ TurtleStart /\ ConnectedStart

NextUnion == CallBinaryUnion /\ UNCHANGED <<wvars, svars, hvars, gvars, lvars, fvars, tvars, cvars>>

SpecUnion == InitUnion /\ [][NextUnion]_vars

InitFoliage ==
    FoliageInit /\ WorkerStart /\ ClientStart /\ StlStart /\ HostStart /\ GenStart
    /\ UnionStart /\ StringStart /\ TurtleStart /\ ConnectedStart

NextFoliage == CallGenerate /\ UNCHANGED <<wvars, svars, hvars, gvars, uvars, lvars, tvars, cvars>>

SpecFoliage == InitFoliage /\ [][NextFoliage]_vars

InitString ==
    StringInit /\ WorkerStart /\ ClientStart /\ StlStart /\ HostStart /\ GenStart /\ UnionStart
    /\ FoliageStart /\ TurtleStart /\ ConnectedStart

NextString == CallGenerateString /\ UNCHANGED <<wvars, svars, hvars, gvars, uvars, fvars, tvars, cvars>>

SpecString == InitString /\ [][NextString]_vars

InitTurtle == TurtleStart /\ WorkerStart /\ ClientStart /\ StlStart /\ HostStart /\ GenStart /\ UnionStart /\ StringStart /\ FoliageStart /\ ConnectedStart

NextTurtle ==
    \/ CallInterpret /\ UNCHANGED <<wvars, svars, hvars, gvars, uvars, lvars, fvars, cvars>>
    \/ ReadChar /\ UNCHANGED <<wvars, svars, hvars, gvars, uvars, lvars, fvars, cvars>>
    \/ ReturnBranches /\ UNCHANGED <<wvars, svars, hvars, gvars, uvars, lvars, fvars, cvars>>

SpecTurtle == InitTurtle /\ [][NextTurtle]_vars

InitConnected == ConnectedStart /\ WorkerStart /\ ClientStart /\ StlStart /\ HostStart /\ GenStart /\ UnionStart /\ StringStart /\ FoliageStart /\ TurtleStart

NextConnected ==
    \/ CallConnected /\ UNCHANGED <<wvars, svars, hvars, gvars, uvars, lvars, fvars, tvars>>
    \/ GrowBranch /\ UNCHANGED <<wvars, svars, hvars, gvars, uvars, lvars, fvars, tvars>>
    \/ ReturnConnected /\ UNCHANGED <<wvars, svars, hvars, gvars, uvars, lvars, fvars, tvars>>

SpecConnected == InitConnected /\ [][NextConnected]_vars

----------------------------------------------------------------------------
(* Claims about the worker, checked under SpecWorker.                      *)

InReplies(t) == \E i \in 1..Len(last.replies) : last.replies[i] = t

\* C1: an EXPORT_STL request handled when no GENERATE_TREE request has yet
\* completed successfully is answered with ERROR and never with STL_READY.
C1_ExportBeforeSuccess ==
    (last.type = "EXPORT_STL" /\ ~last.okGenBefore) => last.replies = <<"ERROR">>

\* C2: every GENERATE_TREE request the worker has handled was answered by
\* exactly one message, TREE_READY or ERROR, whatever the state of the
\* kernel initialization when it arrived.
C2_GenerateAnsweredOnce ==
    last.type = "GENERATE_TREE" =>
        (last.replies = <<"TREE_READY">> \/ last.replies = <<"ERROR">>)

\* C3: a GENERATE_TREE request whose segments and clusters realize to zero
\* solids is answered with ERROR "No geometry generated" and nothing else,
\* and the stored solid (the handle, its not being released, its mesh) is
\* as it was before the request.
C3_NoGeometry ==
    (last.type = "GENERATE_TREE" /\ last.realized /\ last.nSolids = 0) =>
        /\ last.replies = <<"ERROR">>
        /\ last.text = NoGeometry
        /\ currentSolid = last.solidBefore
        /\ kernel.released = last.releasedBefore
        /\ kernel.mesh = last.meshBefore

\* C3, its case: such a request handled while a solid from an earlier
\* successful generation is stored.
C3_Witness ==
    /\ last.type = "GENERATE_TREE" /\ last.realized /\ last.nSolids = 0
    /\ last.okGenBefore /\ last.solidBefore # 0
    /\ last.solidBefore \notin last.releasedBefore

\* C4 as stated: a failed INIT is answered by exactly one ERROR, and while
\* the latest finished INIT is a failed one no TREE_READY and no STL_READY
\* is posted.
C4_FailedInitIsFatal ==
    /\ last.type = "INIT" => Len(last.replies) = 1
    /\ (last.type # "INIT" /\ last.initFailedBefore) =>
           (~InReplies("TREE_READY") /\ ~InReplies("STL_READY"))

\* C4 amended: a failed INIT is answered by exactly one ERROR; if no INIT
\* has succeeded before it, no TREE_READY and no STL_READY is posted until
\* an INIT succeeds.
C4_FailedInitFatalWithoutKernel ==
    /\ last.type = "INIT" => Len(last.replies) = 1
    /\ (last.type # "INIT" /\ last.initFailedBefore /\ ~last.initOkBefore) =>
           (~InReplies("TREE_READY") /\ ~InReplies("STL_READY"))

\* C4, its case: a generation request handled after the only INIT failed.
C4_Witness ==
    /\ last.type = "GENERATE_TREE"
    /\ last.initFailedBefore /\ ~last.initOkBefore

\* C5: the solid kept for export is absent or not released, and no
\* EXPORT_STL is handled on a released solid.
C5_RetainedSolidLive ==
    /\ currentSolid = 0 \/ currentSolid \notin kernel.released
    /\ last.type = "EXPORT_STL" =>
           (last.solidBefore = 0 \/ last.solidBefore \notin last.releasedBefore)

\* The bytes of buffer b at offsets o .. o + n - 1.
BytesAt(b, o, n) == [i \in 1..n |-> b[o + i]]

\* Corner c (0..2), coordinate j (1..3) of triangle t (0-based) of a mesh.
Position(mesh, t, c, j) == VertexOf(mesh, mesh.triVerts[3 * t + c + 1])[j]

\* Every vertex coordinate in buffer b is the mesh's position over S.
PositionsOver(b, mesh, S) ==
    \A t \in 0..(NumTris(mesh) - 1) : \A c \in 0..2 : \A j \in 1..3 :
        BytesAt(b, headerSize + countSize + triangleSize * t + 12 + 12 * c + 4 * (j - 1), 4)
            = F32(Position(mesh, t, c, j) \div S)

ExportedLive ==
    /\ last.type = "EXPORT_STL" /\ last.replies = <<"STL_READY">>
    /\ last.solidBefore \notin last.releasedBefore

\* C8: an EXPORT_STL with scale S (1 when the request carries none) on a
\* live stored solid writes every vertex position as the stored position
\* times 1/S, leaves the stored solid, its mesh and the released set as they
\* were, and returns the same buffer as the previous export of that solid
\* at the same S.
C8_ExportScale ==
    ExportedLive =>
        /\ currentSolid = last.solidBefore
        /\ kernel.released = last.releasedBefore
        /\ \A x \in DOMAIN last.meshBefore : kernel.mesh[x] = last.meshBefore[x]
        /\ PositionsOver(last.buffer, MeshPool[kernel.mesh[currentSolid]], last.scale)
        /\ last.exportedBefore[last.scale] # <<>> =>
               last.buffer = last.exportedBefore[last.scale]

\* C8, its case: a second export at scale 4 of a stored mesh with triangles.
C8_Witness ==
    /\ ExportedLive /\ last.scale = 4
    /\ NumTris(MeshPool[kernel.mesh[currentSolid]]) > 0
    /\ last.exportedBefore[4] # <<>>

----------------------------------------------------------------------------
(* Claims about meshToSTL, checked under SpecStl.                          *)

\* The little-endian 32-bit field of buffer b at offset o.
LE32(b, o) == b[o + 1] + 256 * b[o + 2] + 65536 * b[o + 3] + 16777216 * b[o + 4]

\* C7: meshToSTL on a mesh of N triangles returns 84 + 50 * N bytes, the
\* little-endian 32-bit field at offset 80 is N, the write offset after the
\* last record is the buffer length, and the two attribute bytes that end
\* each 50-byte record (after 12 bytes of normal, 36 of vertices) are zero.
C7_StlLayout ==
    stlOut # NotCalled =>
        /\ ~stlOut.w.threw
        /\ Len(stlOut.w.buffer) = 84 + 50 * NumTris(stlIn)
        /\ LE32(stlOut.w.buffer, 80) = NumTris(stlIn)
        /\ stlOut.w.offset = Len(stlOut.w.buffer)
        /\ \A t \in 0..(NumTris(stlIn) - 1) :
               BytesAt(stlOut.w.buffer, 84 + 50 * t + 12 + 36, 2) = <<0, 0>>

\* C7, its case: a call on a mesh of several triangles, four properties
\* per vertex.
C7_Witness ==
    /\ stlOut # NotCalled
    /\ NumTris(stlIn) >= 2 /\ stlIn.numProp = 4

----------------------------------------------------------------------------
(* Claims about the host and the worker together, checked under SpecSys.   *)

\* C6: Tree never has two GENERATE_TREE requests posted and unanswered at
\* the same time.
C6_OneInFlight == Cardinality(unanswered) <= 1

----------------------------------------------------------------------------
(* Claims about the generator, checked under SpecGen.                      *)

\* The array a call returned equals the array the first call returned.
SameSegments(first) == first.called => returned.segments = first.segments

\* C9 as stated: two calls of generateTree with the same treeHeight,
\* minRadius, seed, species, age and crownWidth return identical sequences
\* of segments.
C9_SameSixSameSegments ==
    returned.called =>
        \A p \in ParamPool :
            SixOf(p) = SixOf(returned.params) => SameSegments(firstOf[p])

\* C9 as amended: two calls of generateTree with the same parameter object
\* (the six fields and the overrides trunkHeight and crownDensity, each
\* absent in both or equal) return identical sequences of segments, also on
\* one generator object with other calls in between.
C9_SameParamsSameSegments ==
    returned.called => SameSegments(firstOf[returned.params])

\* C9, its case: the third call on one object repeats the parameters of
\* the first, the second had others, and the tree has branches.
C9_Witness ==
    /\ returned.called /\ Len(log) = 3
    /\ log[1] = log[3] /\ log[2] # log[1]
    /\ Len(returned.segments) > 3

\* r2 = r1 * 0.85
Tapers(segment) == segment.r2 = (segment.r1 * 850) \div Scale

\* C10 as stated: every segment generateTree returns has r2 = r1 * 0.85.
C10_EverySegmentTapers ==
    returned.called =>
        \A i \in 1..Len(returned.segments) : Tapers(returned.segments[i])

\* C10 as amended: every segment generateTree returns after the first
\* three (the trunk and the two segments of the leader), that is every
\* segment pushed by generateBranchWithEnvelope, has r2 = r1 * 0.85.
C10_EveryBranchTapers ==
    returned.called =>
        \A i \in 4..Len(returned.segments) : Tapers(returned.segments[i])

\* C10, its case: a returned tree with branches of several depths.
C10_Witness ==
    /\ returned.called
    /\ Len(returned.segments) >= 8
    /\ \E i, j \in 4..Len(returned.segments) :
           returned.segments[i].r1 # returned.segments[j].r1

\* C11: no segment generateTree returns has r1 or r2 below the minRadius
\* the caller passed.
C11_NoSegmentBelowMinRadius ==
    returned.called =>
        \A i \in 1..Len(returned.segments) :
            /\ returned.segments[i].r1 >= returned.params.minRadius
            /\ returned.segments[i].r2 >= returned.params.minRadius

\* C12: the end point of every segment generateTree returns lies on or
\* inside the crown envelope of the call (signed distance at most 0).
C12_EndPointsInsideEnvelope ==
    returned.called =>
        \A i \in 1..Len(returned.segments) :
            distanceToCrownSurface(returned.crownEnvelope, returned.segments[i].end) <= 0

\* C13 as stated: no segment is pushed at depth D or deeper, where D is
\* the species' maxBranchLevels plus the age's maxLevelsAdjust.
C13_DepthBelowConfigured ==
    returned.called =>
        \A i \in 1..Len(returned.depths) :
            returned.depths[i] <
                PresetOf(returned.params.preset).maxBranchLevels
                + AgeOf(returned.params.age).maxLevelsAdjust

\* C13 as amended: no segment is pushed at depth max(4, D) or deeper, where
\* D is the species' maxBranchLevels plus the age's maxLevelsAdjust: the
\* configured depth is raised to at least 4 before it bounds the recursion.
C13_DepthBelowEffective ==
    returned.called =>
        \A i \in 1..Len(returned.depths) :
            returned.depths[i] <
                Max(4, PresetOf(returned.params.preset).maxBranchLevels
                       + AgeOf(returned.params.age).maxLevelsAdjust)

\* C13, its case: a returned tree whose configured depth D is at least 1
\* and whose recursion reached the last depth the bound allows.
C13_Witness ==
    /\ returned.called
    /\ PresetOf(returned.params.preset).maxBranchLevels
         + AgeOf(returned.params.age).maxLevelsAdjust >= 1
    /\ \E i \in 1..Len(returned.depths) :
           returned.depths[i] + 1 =
               Max(4, PresetOf(returned.params.preset).maxBranchLevels
                      + AgeOf(returned.params.age).maxLevelsAdjust)

----------------------------------------------------------------------------
(* Claims about binaryUnion, checked under SpecUnion.                      *)

\* The union event of the log that made solid x, or <<>> for an input.
MadeBy(out, x) ==
    IF \E i \in 1..Len(out.log) : out.log[i][1] = "union" /\ out.log[i][4] = x
    THEN out.log[CHOOSE i \in 1..Len(out.log) :
                    out.log[i][1] = "union" /\ out.log[i][4] = x]
    ELSE <<>>

\* The inputs a solid is the union of.
RECURSIVE Cover(_, _)
Cover(out, x) ==
    IF MadeBy(out, x) = <<>> THEN {x}
    ELSE Cover(out, MadeBy(out, x)[2]) \cup Cover(out, MadeBy(out, x)[3])

\* The points the returned solid occupies.
PointsOf(in, out) == UNION { in.points[i] : i \in Cover(out, out.res) }

Reordered(solids, q) == [i \in 1..Len(solids) |-> solids[q[i]]]

\* C14: binaryUnion of a list and of any reordering of the same list
\* return solids that occupy the same set of points.
C14_OrderDoesNotMatter ==
    (unionOut.called /\ ~unionOut.threw /\ Len(unionIn.solids) >= 1) =>
        \A q \in Orders(Len(unionIn.solids)) :
            PointsOf(unionIn,
                     United(binaryUnion(KernelOf(Len(unionIn.solids)),
                                        Reordered(unionIn.solids, q), 0), 0))
                = PointsOf(unionIn, unionOut)

\* C14, its case: three or more solids with overlapping point sets,
\* passed in an order that is not the order of their construction.
C14_Witness ==
    /\ unionOut.called /\ ~unionOut.threw
    /\ Len(unionIn.solids) >= 3
    /\ unionIn.solids[1] > unionIn.solids[2]
    /\ unionIn.points[1] \cap unionIn.points[2] # {}
    /\ unionIn.points[1] # unionIn.points[2]
    /\ unionOut.calls = Len(unionIn.solids) - 1

\* The positions of the log at which solid x is released.
ReleasesOf(out, x) == { i \in 1..Len(out.log) : out.log[i] = <<"delete", x>> }

\* The solids a call consumed: the operands of its unions.
Consumed(out) ==
    { out.log[i][2] : i \in { j \in 1..Len(out.log) : out.log[j][1] = "union" } }
    \cup { out.log[i][3] : i \in { j \in 1..Len(out.log) : out.log[j][1] = "union" } }

\* Union event i of the log is followed at once by the release of its
\* left operand and then of its right operand.
ReleasedAtOnce(out, i) ==
    /\ i + 2 <= Len(out.log)
    /\ out.log[i + 1] = <<"delete", out.log[i][2]>>
    /\ out.log[i + 2] = <<"delete", out.log[i][3]>>

\* C18: a call of binaryUnion on n >= 2 distinct solids, the kernel not
\* failing, returns without an error of the kernel (no released solid is
\* passed to union, none is released twice); every input and every
\* intermediate result is released exactly once, right after the union
\* that consumed it; the returned solid is not released.  For n = 1 the
\* input is returned and nothing is released.
C18_ReleasedOnceAfterUse ==
    (unionOut.called /\ unionOut.failAt = 0 /\ Len(unionIn.solids) >= 1) =>
        /\ ~unionOut.threw
        /\ \A i \in 1..Len(unionIn.solids) :
               Len(unionIn.solids) >= 2 => unionIn.solids[i] \in Consumed(unionOut)
        /\ \A x \in Consumed(unionOut) : Cardinality(ReleasesOf(unionOut, x)) = 1
        /\ \A i \in 1..Len(unionOut.log) :
               unionOut.log[i][1] = "union" => ReleasedAtOnce(unionOut, i)
        /\ ReleasesOf(unionOut, unionOut.res) = {}
        /\ unionOut.res \notin unionOut.released
        /\ Len(unionIn.solids) = 1 =>
               unionOut.res = unionIn.solids[1] /\ unionOut.log = <<>>

\* C18, its case: a call on the most solids, with an intermediate result
\* on both sides of the last union.
C18_Witness ==
    /\ unionOut.called /\ unionOut.failAt = 0 /\ ~unionOut.threw
    /\ Len(unionIn.solids) = MaxSolids
    /\ \E i \in 1..Len(unionOut.log) :
           /\ unionOut.log[i][1] = "union"
           /\ unionOut.log[i][4] = unionOut.res
           /\ MadeBy(unionOut, unionOut.log[i][2]) # <<>>
           /\ MadeBy(unionOut, unionOut.log[i][3]) # <<>>
    /\ Cardinality(unionOut.released) = 2 * (MaxSolids - 1)

\* The positions of the list passed that solid x is the union of.
Span(in, out, x) == { i \in 1..Len(in.solids) : in.solids[i] \in Cover(out, x) }

\* The number of unions nested in solid x.
RECURSIVE Nesting(_, _)
Nesting(out, x) ==
    IF MadeBy(out, x) = <<>> THEN 0
    ELSE 1 + Max(Nesting(out, MadeBy(out, x)[2]), Nesting(out, MadeBy(out, x)[3]))

\* ceil(log2(n)) for n >= 1
Log2Ceil(n) == IF n = 1 THEN 0 ELSE 1 + Log2Floor(n - 1)

\* Union event e joins two adjacent slices of the list, the left one of
\* floor(m / 2) of their m solids.
SplitAtHalf(in, out, e) ==
    /\ \E a, b, c \in 1..Len(in.solids) :
           Span(in, out, e[2]) = a..b /\ Span(in, out, e[3]) = (b + 1)..c /\ a <= b /\ b < c
    /\ Cardinality(Span(in, out, e[2]))
           = (Cardinality(Span(in, out, e[2])) + Cardinality(Span(in, out, e[3]))) \div 2

\* C19: a call of binaryUnion on n >= 1 solids, the kernel not failing,
\* makes exactly n - 1 unions; each joins the two halves of a slice split
\* at floor(length / 2); the unions are nested ceil(log2 n) deep.
C19_BalancedUnions ==
    (unionOut.called /\ unionOut.failAt = 0 /\ Len(unionIn.solids) >= 1) =>
        /\ unionOut.calls = Len(unionIn.solids) - 1
        /\ Cardinality({ i \in 1..Len(unionOut.log) : unionOut.log[i][1] = "union" })
               = Len(unionIn.solids) - 1
        /\ \A i \in 1..Len(unionOut.log) :
               unionOut.log[i][1] = "union" => SplitAtHalf(unionIn, unionOut, unionOut.log[i])
        /\ Span(unionIn, unionOut, unionOut.res) = 1..Len(unionIn.solids)
        /\ Nesting(unionOut, unionOut.res) = Log2Ceil(Len(unionIn.solids))

\* C19, its case: a call on three solids, which no split halves evenly.
C19_Witness ==
    /\ unionOut.called /\ unionOut.failAt = 0
    /\ Len(unionIn.solids) = 3
    /\ unionOut.calls = 2
    /\ Nesting(unionOut, unionOut.res) = 2

----------------------------------------------------------------------------
(* Claims about generateString, checked under SpecString.                  *)

\* The production of the claim: F -> 'FF' and b bracketed side branches.
Production(b) ==
    [i \in 1..(2 + 4 * b) |->
        IF i <= 2 THEN "F"
        ELSE CASE (i - 3) % 4 = 0 -> "["
               [] (i - 3) % 4 = 1 -> IF ((i - 3) \div 4) % 2 = 0 THEN "+" ELSE "-"
               [] (i - 3) % 4 = 2 -> "F"
               [] OTHER -> "]"]

\* The number of F among the first n characters of a string.
CountF(str, n) == Cardinality({ i \in 1..n : str[i] = "F" })

\* Where the image of character i of `str` starts in the rewritten string.
ImageAt(str, i, b) == i + (1 + 4 * b) * CountF(str, i - 1)

\* `out` is `str` with every F replaced by the production and every
\* other symbol copied.
Applied(str, out, b) ==
    /\ Len(out) = Len(str) + (1 + 4 * b) * CountF(str, Len(str))
    /\ \A i \in 1..Len(str) :
           IF str[i] = "F"
           THEN SubSeq(out, ImageAt(str, i, b), ImageAt(str, i, b) + 1 + 4 * b) = Production(b)
           ELSE out[ImageAt(str, i, b)] = str[i]

\* 'FF[+F][-F]' applied to 'F' twice
TwiceFromF ==
    << "F","F","[","+","F","]","[","-","F","]",
       "F","F","[","+","F","]","[","-","F","]",
       "[","+", "F","F","[","+","F","]","[","-","F","]", "]",
       "[","-", "F","F","[","+","F","]","[","-","F","]", "]" >>

\* C15: generateString(axiom, 0, b) is the axiom; generateString(axiom,
\* depth, b) is the production applied to generateString(axiom, depth - 1,
\* b); generateString('F', 2, 2) is 'FF[+F][-F]' applied to 'F' twice.
C15_ExpandsByTheProduction ==
    stringOut.called =>
        /\ stringIn.depth = 0 => stringOut.string = stringIn.axiom
        /\ stringIn.depth > 0 =>
               Applied(generateString(stringIn.axiom, stringIn.depth - 1,
                                      stringIn.branchingFactor),
                       stringOut.string, stringIn.branchingFactor)
        /\ (stringIn.axiom = <<"F">> /\ stringIn.depth = 2 /\ stringIn.branchingFactor = 2)
               => stringOut.string = TwiceFromF

\* C15, its case: an axiom of F and another symbol expanded twice with
\* side branches of both signs.
C15_Witness ==
    /\ stringOut.called
    /\ stringIn.depth = 2 /\ stringIn.branchingFactor = 3
    /\ stringIn.axiom = <<"+", "F">>
    /\ \E i \in 1..Len(stringOut.string) : stringOut.string[i] = "-"

\* The length of generateString('F', k, 2)
LengthAt(k) == Len(generateString(<<"F">>, k, 2))

\* The number of F in generateString('F', k, 2)
CountAt(k) == CountF(generateString(<<"F">>, k, 2), LengthAt(k))

FromF == stringOut.called /\ stringIn.axiom = <<"F">> /\ stringIn.branchingFactor = 2

\* C16 as stated: from 'F' with branchingFactor 2 the ratio length(k + 1) /
\* length(k) is the same for every k: it is the ratio length(1) / length(0).
C16_LengthRatioConstant ==
    FromF =>
        LengthAt(stringIn.depth + 1) * LengthAt(0)
            = LengthAt(1) * Len(stringOut.string)

\* C16 as amended: from 'F' with branchingFactor 2 the number of F of the
\* string grows by the same factor, 4, at each application of the rule,
\* and the length grows by 9 for every F of the string rewritten.
C16_ForwardCountRatioConstant ==
    FromF =>
        /\ CountAt(stringIn.depth + 1)
               = 4 * CountF(stringOut.string, Len(stringOut.string))
        /\ LengthAt(stringIn.depth + 1)
               = Len(stringOut.string) + 9 * CountF(stringOut.string, Len(stringOut.string))

\* C16, its case: the rule has been applied to 'F' at least once, so
\* that the string rewritten next has symbols other than F.
C16_Witness ==
    /\ FromF
    /\ stringIn.depth >= 1
    /\ CountF(stringOut.string, Len(stringOut.string)) < Len(stringOut.string)

----------------------------------------------------------------------------
(* Claims about the names of species and ages, checked under SpecNames.    *)

\* The parameters with every name that is not a key of its table replaced
\* by the default.
Defaulted(params) ==
    [params EXCEPT !.preset = IF @ \in Species THEN @ ELSE "linden",
                   !.age = IF @ \in Ages THEN @ ELSE "mature"]

\* C17: a call of generateTree with a species name or an age name that is
\* not a key of its table returns the segments the call with 'linden',
\* respectively 'mature', in its place returns.
C17_UnknownNamesDefault ==
    (returned.called /\ Defaulted(returned.params) # returned.params) =>
        returned.segments = generateTree(NewGenerator, Defaulted(returned.params)).segments

----------------------------------------------------------------------------
(* Claims about the seed of the generators, checked under SpecFoliage.     *)

\* C20: two successive calls of FoliageGenerator.generate with the same
\* parameters on one generator return the same list of clusters.
C20_SameParamsSameClusters ==
    \A i \in 1..Len(generated) - 1 :
        generated[i].params = generated[i + 1].params
            => generated[i].clusters = generated[i + 1].clusters

\* C21: generateBranchWithEnvelope pushes no child branch whose computed
\* radius (parent radius * radiusDecay * jitter) is below the minimum
\* radius of the call: no segment is pushed with its radius raised to the
\* minimum.
C21_NoRadiusRaised ==
    \A i \in 1..Len(generator.segments) : i \notin generator.raised

----------------------------------------------------------------------------
(* Claims about the turtle, checked under SpecTurtle.                      *)

\* The step reads the character char while the call is under way.
Reads(char) ==
    /\ turtle.running
    /\ turtle'.running
    /\ turtle'.read = Append(turtle.read, char)

\* C22: a ']' read while the state stack is empty changes nothing: the
\* position, the orientation, the radius, the step length, the stack and
\* the branches are as before, and the call is still under way.
C22_UnmatchedCloseIsNoOp ==
    [][(Reads("]") /\ turtle.stateStack = <<>>)
          => turtle' = [turtle EXCEPT !.read = Append(@, "]")]]_vars

\* C22, its case: a call that read ']' on the empty stack after a branch
\* was pushed, and went on to read an 'F' that pushed a second one.
C22_Witness ==
    /\ turtle.running
    /\ Len(turtle.read) >= 3
    /\ turtle.read[1] = "F" /\ turtle.read[2] = "]" /\ turtle.read[3] = "F"
    /\ Len(turtle.branches) = 2

\* C23: the ']' that closes a '[' leaves the turtle with the position, the
\* orientation, the radius and the step length it had immediately before
\* that '[', whatever was read in between; the branches pushed before the
\* '[' are unchanged.
C23_CloseRestoresOpen ==
    [][(Reads("]") /\ turtle.stateStack # <<>>)
          => /\ Held(turtle') = turtle.opened[Len(turtle.opened)].held
             /\ SubSeq(turtle'.branches, 1,
                       Len(turtle.opened[Len(turtle.opened)].branches))
                    = turtle.opened[Len(turtle.opened)].branches]_vars

\* C23, its case: with gravitropism, a turn and a forward step read between
\* '[' and ']' after a first forward step; the turtle is back at the end of
\* the first branch with the orientation that branch left.
C23_Witness ==
    /\ turtle.running
    /\ turtle.args.gravitropism # 0
    /\ turtle.read = <<"F", "[", "+", "F", "]">>
    /\ Len(turtle.branches) = 2
    /\ turtle.currentPos = turtle.branches[1].end
    /\ turtle.currentQuat = 2
    /\ turtle.quats[1] # turtle.quats[2]

----------------------------------------------------------------------------
(* Claims about the connected generator, checked under SpecConnected.      *)

\* The end points of the segments pushed before segment k.
EarlierEnds(segments, k) == { segments[j].end : j \in 1..(k - 1) }

\* C24: at every turn of the crown loop, every segment but the trunk starts
\* at the end point of a segment pushed before it, and every loop segment
\* also ends at such a point, which is not its own start.
C24_AllConnected ==
    connected.phase # "new" =>
        \A k \in 2..Len(connected.segments) :
            /\ connected.segments[k].start \in EarlierEnds(connected.segments, k)
            /\ connected.kinds[k] = "loop" =>
                   /\ connected.segments[k].end \in EarlierEnds(connected.segments, k)
                   /\ connected.segments[k].end # connected.segments[k].start

\* C24, its case: a returned tree with a loop segment and with a branch
\* that starts at the end of another branch.
C24_Witness ==
    /\ connected.phase = "returned"
    /\ \E k \in 2..Len(connected.segments) : connected.kinds[k] = "loop"
    /\ \E k \in 2..Len(connected.segments) :
           /\ connected.kinds[k] = "branch"
           /\ connected.segments[k].start # connected.segments[1].end

----------------------------------------------------------------------------
(* Claims about the start points of the envelope-constrained generator,    *)
(* checked under SpecTree.                                                 *)

\* C25 as stated: every segment generateTree returns, but the trunk, starts
\* exactly at the end point of a segment pushed before it.
C25_StartsAtEarlierEnd ==
    returned.called =>
        \A k \in 2..Len(returned.segments) :
            returned.segments[k].start \in EarlierEnds(returned.segments, k)

\* The point lies on the axis of the leader, between the end of the trunk
\* and the tip of the leader (segments 1 and 3).
OnLeader(segments, point) ==
    /\ point[1] = 0
    /\ point[3] = 0
    /\ segments[1].end[2] <= point[2]
    /\ point[2] <= segments[3].end[2]

\* C25 as amended: every segment generateTree returns, but the trunk,
\* starts exactly at the end point of a segment pushed before it or, if it
\* is a primary branch of a tier, at a point of the leader's axis between
\* the end of the trunk and the tip of the leader.
C25_StartsAtEndOrOnLeader ==
    returned.called =>
        \A k \in 2..Len(returned.segments) :
            IF returned.depths[k] = 0
            THEN OnLeader(returned.segments, returned.segments[k].start)
            ELSE returned.segments[k].start \in EarlierEnds(returned.segments, k)

\* C25, its case: a returned tree with a branch below a primary branch and
\* a primary branch that starts at no end point pushed before it.
C25_Witness ==
    /\ returned.called
    /\ \E k \in 2..Len(returned.segments) : returned.depths[k] >= 1
    /\ \E k \in 2..Len(returned.segments) :
           /\ returned.depths[k] = 0
           /\ returned.segments[k].start \notin EarlierEnds(returned.segments, k)

----------------------------------------------------------------------------
(* Claims about the irregular crown, checked under SpecFoliage.            *)

\* The point is outside the ellipsoid of a call with these parameters.
OutsideOf(params, point) ==
    Outside(point[1], point[2], point[3],
            CrownStart(params.treeHeight, params.treeStyle),
            params.treeHeight - CrownStart(params.treeHeight, params.treeStyle),
            MaxWidth(params.treeHeight, params.treeStyle))

\* The do-while of one sphere: at most 20 points drawn, every one but the
\* last outside, the last inside unless it is the 20th, the loop left, and
\* the sphere at the last point.
SampledWell(params, try, cluster) ==
    /\ Len(try.drawn) \in 1..20
    /\ \A j \in 1..(Len(try.drawn) - 1) : OutsideOf(params, try.drawn[j])
    /\ Len(try.drawn) < 20 => ~OutsideOf(params, try.drawn[Len(try.drawn)])
    /\ ~try.again
    /\ cluster.position = try.drawn[Len(try.drawn)]

\* C26: a call of generate for the irregular style returns exactly
\* floor(20 * crownDensity) clusters; for each of them at most 20 points
\* were drawn, the first one inside the ellipsoid was taken, and the 20th
\* was taken if none was inside.
C26_BoundedRejectionSampling ==
    \A i \in 1..Len(generated) :
        generated[i].params.treeStyle.crownStyle = "irregular" =>
            /\ Len(generated[i].clusters)
                   = (20 * generated[i].params.treeStyle.crownDensity) \div Scale
            /\ Len(generated[i].tries) = Len(generated[i].clusters)
            /\ \A k \in 1..Len(generated[i].clusters) :
                   SampledWell(generated[i].params, generated[i].tries[k],
                               generated[i].clusters[k])

\* C26, its case: a call for the irregular style in which one sphere took
\* 20 points and stands at the 20th, outside the ellipsoid, and another
\* took more than one point and fewer than 20.
C26_Witness ==
    \E i \in 1..Len(generated) :
        /\ generated[i].params.treeStyle.crownStyle = "irregular"
        /\ \E k \in 1..Len(generated[i].tries) :
               /\ Len(generated[i].tries[k].drawn) = 20
               /\ OutsideOf(generated[i].params, generated[i].clusters[k].position)
        /\ \E k \in 1..Len(generated[i].tries) :
               Len(generated[i].tries[k].drawn) \in 2..19

----------------------------------------------------------------------------
(* Claims about segments too short to realize, checked under SpecWorker.   *)

\* The end points of the segment are closer than 0.0001.
Closer(b) ==
    (b.end[1] - b.start[1]) * (b.end[1] - b.start[1])
    + (b.end[2] - b.start[2]) * (b.end[2] - b.start[2])
    + (b.end[3] - b.start[3]) * (b.end[3] - b.start[3]) < EpsLength * EpsLength

\* The request without the segments whose end points are that close.
Remaining(payload) ==
    [payload EXCEPT !.branches = SelectSeq(@, LAMBDA b : ~Closer(b))]

\* The step is the handler's, on a GENERATE_TREE request with such a
\* segment, the kernel handle set.
AssemblesShort ==
    /\ inbox # <<>>
    /\ Head(inbox).type = "GENERATE_TREE"
    /\ manifold
    /\ inbox' = Tail(inbox)
    /\ \E i \in 1..Len(Head(inbox).payload.branches) :
           Closer(Head(inbox).payload.branches[i])

\* The step leaves the worker as the run h of the handler does.
LeavesAs(h) ==
    /\ currentSolid' = h.currentSolid
    /\ kernel' = h.kernel
    /\ outbox' = outbox \o Post(h.replies, Head(inbox).id)
    /\ last'.nSolids = h.nSolids

\* C27: a GENERATE_TREE request with segments whose end points are closer
\* than 0.0001 is handled exactly as the request without those segments is
\* (the same solids united, the same reply, the same stored solid), and if
\* a solid remains and the kernel throws nothing the reply is TREE_READY.
C27_ShortSegmentsDropped ==
    [][AssemblesShort =>
          /\ \E c \in GenerateChoices(currentSolid, kernel,
                                      Remaining(Head(inbox).payload)) :
                 LeavesAs(onGenerateTree(currentSolid, kernel,
                                         Remaining(Head(inbox).payload), c))
          /\ (last'.nSolids >= 1 /\ last'.text # KernelError)
                 => last'.replies = <<"TREE_READY">>]_vars

\* C27, its case: a request with such a segment and two longer ones,
\* answered with TREE_READY for the three solids that remain.
C27_Witness ==
    /\ last.type = "GENERATE_TREE"
    /\ \E i \in 1..Len(last.payload.branches) : Closer(last.payload.branches[i])
    /\ \E i \in 1..Len(last.payload.branches) : ~Closer(last.payload.branches[i])
    /\ last.nSolids = 3
    /\ last.replies = <<"TREE_READY">>

----------------------------------------------------------------------------
(* Claims about the generating state of the host, checked under SpecSys    *)
(* and SpecSysLive.                                                        *)

\* The host's listener is called on a message of type t.
Receives(t) == outbox # <<>> /\ Head(outbox).type = t /\ outbox' = Tail(outbox)

\* A generate click or a change of a setting the effect depends on.
Triggers == HostGenerateClick \/ HostSettingsChange

\* The host posts a GENERATE_TREE request.
PostsGenerate ==
    /\ Len(inbox') = Len(inbox) + 1
    /\ inbox'[Len(inbox')].type = "GENERATE_TREE"

\* C28: an ERROR the host receives ends the generating state; a generate
\* trigger or settings change made while the worker is ready and the host
\* is not generating arms the timer, whose firing posts a GENERATE_TREE
\* request; and the generating state always ends.
C28_ErrorLeavesGenerating ==
    /\ [][Receives("ERROR") => ~isGenerating']_vars
    /\ [][(Triggers /\ workerReady /\ ~isGenerating) => timer']_vars
    /\ [][(timer /\ ~timer' /\ inbox' # inbox) => (PostsGenerate /\ isGenerating')]_vars
    /\ (isGenerating ~> ~isGenerating)

\* C28, its case: the worker answered a generation request with ERROR, the
\* host has received it, and a later GENERATE_TREE request is in flight.
C28_Witness ==
    /\ last.type = "GENERATE_TREE" /\ last.replies = <<"ERROR">>
    /\ outbox = <<>>
    /\ last.re \notin unanswered
    /\ isGenerating
    /\ \E k \in unanswered : k > last.re

\* C29: a generate trigger or settings change made while a generation
\* request is in flight arms no timer and posts nothing, and the answer to
\* a generation request arms no timer and posts nothing either.
C29_InFlightTriggerRejected ==
    /\ [][(Triggers /\ unanswered # {}) => (~timer' /\ inbox' = inbox)]_vars
    /\ [][(Receives("TREE_READY") \/ Receives("ERROR")) =>
              (timer' = timer /\ inbox' = inbox)]_vars

\* C30: a GENERATE_TREE request is posted only by a host that has received
\* READY, the receipt of READY arms the timer of the first generation, and
\* the worker never drops a GENERATE_TREE request for want of a kernel.
C30_NoGenerateBeforeReady ==
    /\ [][PostsGenerate => workerReady]_vars
    /\ [][Receives("READY") => timer']_vars
    /\ [](\A i \in 1..Len(inbox) : inbox[i].type = "GENERATE_TREE" => manifold)
    /\ [](~ENABLED WorkerGenerateDropped)

\* C30, its case: the worker has handled a GENERATE_TREE request of the
\* host, with the kernel initialized.
C30_Witness ==
    /\ workerReady
    /\ last.type = "GENERATE_TREE"
    /\ last.manifoldBefore
    /\ last.replies # <<>>

====
